---- MODULE Spec2Model ----
(***************************************************************************)
(* A model of the hwh Bus Pirate support, of the glitch-o-bolt serial       *)
(* monitor and configuration functions, and of the hwh terminal interface: *)
(*   - BPIO2Protocol (src/hwh/bpio2_protocol.py): the sequence counter,    *)
(*     the three request builders and parse_response;                      *)
(*   - BusPirateBackend (src/hwh/backend_buspirate.py): connect,           *)
(*     disconnect, the configure operations and the data operations, on    *)
(*     top of the pybpio client, whose answers are the environment's;      *)
(*   - glitch-o-bolt (src/hwh/tooling/glitch-o-bolt): check_conditions,    *)
(*     monitor_buffer, the triggers, send_uart_message and the brute-force *)
(*     configuration's perform_glitch and glitched_too_far;                *)
(*   - HwhApp (src/hwh/tui/app.py): the glitch parameter buttons and       *)
(*     connect_device / disconnect_device.                                 *)
(*                                                                         *)
(* Python's optional values are sets: {} is None (or an absent field),     *)
(* {v} is the value v.  A Python call that may raise is a record           *)
(* [raised, value].                                                        *)
(***************************************************************************)
EXTENDS Integers, Sequences, FiniteSets, TLC

VARIABLES
    \* BPIO2Protocol
    _sequence,      \* self._sequence
    request,        \* the message the latest builder call returned ({} before any)
    parsed,         \* the outcome of the latest parse_response call ({} before any)
    call,           \* the latest call on the protocol object: its method and arguments
    \* observers of the protocol object (not program state)
    nCalls,         \* builder calls made so far
    probe,          \* one sequence number, watched for repeats
    probeAt,        \* the call that issued probe the latest time (0: never)
    probePrev,      \* the call that issued probe the time before (0: never)
    \* BusPirateBackend
    port,           \* self.device.port is set
    _client,        \* self._client: {} or {"BPIOClient"}
    _connected,     \* self._connected
    _spi,           \* self._spi: {} or {[configured |-> b]}
    _i2c,           \* self._i2c: {} or {[configured |-> b]}
    _current_mode,  \* self._current_mode: {} or {name}
    \* the latest backend operation, as its caller and the client saw it
    op,             \* its name ("init" before any)
    ret,            \* what it returned ({} : None, or nothing when it raised)
    raised,         \* whether an exception left it
    calls,          \* the calls it made on the pybpio client, in order
    answer,         \* what the client answered to the call that decided it
    \* the framing functions encode_message / decode_message
    payload,        \* the bytes handed to encode_message
    frame,          \* what the latest encode_message returned (<<>> before any)
    decoded,        \* the outcome of the latest decode_message
    \* the latest I2C operation, as the I2C wrapper saw it
    wire,           \* the address given and the address byte passed to transfer()
    scan,           \* an i2c_scan: its range, the devices, what scan() reported, the result
    \* the backend used as a context manager
    block,          \* where the with-statement is, and what its entry and exit called
    \* the glitch sweep command
    sweep,          \* its arguments, the announced total, the loops' position, the results
    \* glitch-o-bolt: the serial monitor's conditions
    conditions,     \* config.conditions: a list of [enabled, trigger, action]
    serial_buffer,  \* the text received on the serial port, a list of characters
    matched,        \* what the latest check_conditions returned, for which buffer
    \* glitch-o-bolt: the background task monitor_buffer
    monitor,        \* its latest iteration: the buffer found, kept, the action, the outcome
    stream,         \* observer: characters dropped so far, the occurrences acted on and still buffered
    \* glitch-o-bolt: config.triggers and their widgets
    triggers,       \* a list of [symbol, enabled, shown, switch]
    toggled,        \* observer: the trigger toggled last, how often in a row, from which symbol
    \* glitch-o-bolt: send_uart_message
    uart,           \* config.UART_NEWLINE, the message given, what was written to the port
    \* glitch-o-bolt: the brute-force configuration's module globals
    brute,          \* the flags, the amounts, the three values, the latest calls
    \* the hwh terminal interface (HwhApp)
    glitch,         \* glitch_length, glitch_repeat, glitch_delay
    inputs,         \* the text shown in the three input fields
    presses,        \* observer: adjust buttons pressed so far, and the latest one
    connections,    \* self.connections: device id -> the backend's state
    selected_device,\* self.selected_device: {} or {device id}
    tui             \* observer: the latest connect_device / disconnect_device event

protoVars == <<_sequence, request, parsed, call>>
monVars == <<nCalls, probe, probeAt, probePrev>>
backendVars == <<port, _client, _connected, _spi, _i2c, _current_mode>>
obsVars == <<op, ret, raised, calls, answer>>
frameVars == <<payload, frame, decoded>>
i2cVars == <<wire, scan, block>>
sweepVars == <<sweep>>
condVars == <<conditions, serial_buffer, matched>>
watchVars == <<monitor, stream>>
trigVars == <<triggers, toggled>>
uartVars == <<uart>>
bruteVars == <<brute>>
paramVars == <<glitch, inputs, presses>>
deviceVars == <<connections, selected_device, tui>>
toolVars == <<watchVars, trigVars, uartVars, bruteVars, paramVars, deviceVars>>
otherVars == <<frameVars, sweepVars, condVars, toolVars>>
\* everything the glitch-o-bolt and interface operations leave alone
coreVars == <<protoVars, monVars, backendVars, obsVars, frameVars, i2cVars, sweepVars>>
vars == <<protoVars, monVars, backendVars, obsVars, otherVars, i2cVars>>

None == {}
Some(v) == {v}
TheValue(o) == CHOOSE v \in o : TRUE

\* ------------------------------------------------------------------------
\* Bounds of the model
\* ------------------------------------------------------------------------

\* builder calls in the wraparound specification: past one full cycle
MaxCalls == 65540
\* builder calls in the specifications that vary the builders' arguments
MaxBuilds == 2
\* the largest byte / count value the arguments are drawn from
MaxArg == 1
\* the longest run of arbitrary bytes before and after a payload's long block
MaxAffix == 2
\* the largest width and offset (ns) a sweep's ranges are drawn from
MaxSpan == 3
\* the largest step of a sweep
MaxStep == 2
\* the most attempts per setting of a sweep
MaxAttempts == 2
\* the most conditions a configuration lists
MaxConditions == 2
\* the longest serial buffer
MaxBuffer == 3
\* the most characters the target sends while the monitor task is watched
MaxStream == 5
\* the triggers a configuration lists
MaxTriggers == 2
\* the longest message handed to send_uart_message
MaxMessage == 3
\* the most calls of the brute-force configuration's functions
MaxGlitchCalls == 7
\* the most adjust buttons pressed
MaxPresses == 3

\* ------------------------------------------------------------------------
\* BPIO2Protocol: the sequence counter
\* ------------------------------------------------------------------------

\* the mask 0xFFFF of _next_sequence, as a modulus
SeqModulus == 65536

\* a faulty variant: the counter masked with 0x7FFF
NextSeqHalfMask(seq) == (seq + 1) % (SeqModulus \div 2)

\* _next_sequence: the number returned is the counter before the increment
next_sequence_value(seq) == seq
next_sequence_counter(seq) == (seq + 1) % SeqModulus

\* ------------------------------------------------------------------------
\* The FlatBuffers builder, as far as the builders rely on it
\* ------------------------------------------------------------------------

\* A message is the set of fields the builder added, each with the value it was
\* given (the Add<Field> calls between a table's Start and End).

\* Python truthiness of an optional str and of an optional bytes argument
TruthyStr(o) == o # None /\ TheValue(o) # ""
TruthyBytes(o) == o # None /\ Len(TheValue(o)) > 0

\* the keys of mode_config that build_configuration_request reads
EncodedConfigKeys == {"speed", "data_bits", "clock_polarity", "clock_phase", "chip_select_idle"}

RequestPacket(seq, type, packet) ==
    [sequence |-> seq, packet_type |-> type, packet |-> packet]

\* build_status_request: query_types None means [All]
StatusRequestPacket(query_types) ==
    [query |-> IF query_types = None THEN <<"All">> ELSE TheValue(query_types)]

\* the ModeConfiguration table: one optional field per key that is encoded
ModeConfigurationTable(mc) ==
    [k \in EncodedConfigKeys |-> IF k \in DOMAIN mc THEN Some(mc[k]) ELSE None]

\* a faulty variant: psu_enable tested for truth only, so False reads as omitted
PsuFlagsTruthy(psu_enable) ==
    [psu_enable |-> IF psu_enable = Some(TRUE) THEN Some(TRUE) ELSE None,
     psu_disable |-> None]

\* lines 133-137: psu_enable is tested against None, then for truth
PsuFlags(psu_enable) ==
    [psu_enable |-> IF psu_enable = Some(TRUE) THEN Some(TRUE) ELSE None,
     psu_disable |-> IF psu_enable = Some(FALSE) THEN Some(TRUE) ELSE None]

\* a faulty variant: an omitted pullup_enable written as pullup_disable
PullupFlagsDefaultDisable(pullup_enable) ==
    [pullup_enable |-> IF pullup_enable = Some(TRUE) THEN Some(TRUE) ELSE None,
     pullup_disable |-> IF pullup_enable # Some(TRUE) THEN Some(TRUE) ELSE None]

\* lines 144-148
PullupFlags(pullup_enable) ==
    [pullup_enable |-> IF pullup_enable = Some(TRUE) THEN Some(TRUE) ELSE None,
     pullup_disable |-> IF pullup_enable = Some(FALSE) THEN Some(TRUE) ELSE None]

\* build_configuration_request, the ConfigurationRequest table
ConfigurationRequestPacket(mode, mode_config, psu_enable, psu_voltage_mv, psu_current_ma, pullup_enable) ==
    [mode |-> IF TruthyStr(mode) THEN mode ELSE None,
     mode_configuration |->
        IF mode_config # None /\ DOMAIN TheValue(mode_config) # {}
        THEN Some(ModeConfigurationTable(TheValue(mode_config)))
        ELSE None,
     psu_enable |-> PsuFlags(psu_enable).psu_enable,
     psu_disable |-> PsuFlags(psu_enable).psu_disable,
     psu_set_mv |-> psu_voltage_mv,
     psu_set_ma |-> psu_current_ma,
     pullup_enable |-> PullupFlags(pullup_enable).pullup_enable,
     pullup_disable |-> PullupFlags(pullup_enable).pullup_disable]

\* build_data_request, the DataRequest table
DataRequestPacket(write_data, read_len, start, stop, start_alt, stop_alt) ==
    [start_main |-> IF start THEN Some(TRUE) ELSE None,
     stop_main |-> IF stop THEN Some(TRUE) ELSE None,
     start_alt |-> IF start_alt THEN Some(TRUE) ELSE None,
     stop_alt |-> IF stop_alt THEN Some(TRUE) ELSE None,
     data_write |-> IF TruthyBytes(write_data) THEN write_data ELSE None,
     bytes_read |-> IF read_len > 0 THEN Some(read_len) ELSE None]

\* ------------------------------------------------------------------------
\* BPIO2Protocol: parse_response
\* ------------------------------------------------------------------------

\* A Python call's outcome
Return(v) == [raised |-> FALSE, value |-> v]
Raise == [raised |-> TRUE, value |-> None]

\* The received bytes, by what the FlatBuffers accessors make of them:
\*   root_ok    GetRootAs, Sequence() and PacketType() return
\*   packet_ok  Packet() is a table and its fields decode (utf-8, vectors)
\*   sequence, packet_type, and the fields of the table packet_type names
KnownResponseTypes == {"StatusResponse", "ConfigurationResponse", "DataResponse"}
ResponseTypes == KnownResponseTypes \cup {"NONE", "Other"}

\* truthiness of what a string accessor returns (None or bytes)
TruthyField(o) == o # None /\ TheValue(o) # ""

\* _parse_status_response (the version, adc and io entries are copied the same way)
parse_status_response(status) ==
    [error |-> IF TruthyField(status.error) THEN status.error ELSE None,
     mode |-> IF TruthyField(status.mode_current) THEN status.mode_current ELSE None,
     psu |-> [enabled |-> status.psu_enabled],
     pullup_enabled |-> status.pullup_enabled]

\* _parse_configuration_response
parse_configuration_response(config) ==
    [error |-> IF TruthyField(config.error) THEN config.error ELSE None]

\* _parse_data_response
parse_data_response(data_resp) ==
    [error |-> IF TruthyField(data_resp.error) THEN data_resp.error ELSE None,
     data_read |-> IF Len(data_resp.data_read) > 0 THEN Some(data_resp.data_read) ELSE None]

\* the body of parse_response's try block
parse_response_try(data) ==
    IF ~data.root_ok THEN Raise
    ELSE LET result == [sequence |-> data.sequence, type |-> data.packet_type,
                        data |-> None]
         IN  IF data.packet_type \in KnownResponseTypes
             THEN IF ~data.packet_ok THEN Raise
                  ELSE Return(Some([result EXCEPT !.data =
                         Some(CASE data.packet_type = "StatusResponse" ->
                                     parse_status_response(data.packet)
                                [] data.packet_type = "ConfigurationResponse" ->
                                     parse_configuration_response(data.packet)
                                [] OTHER -> parse_data_response(data.packet))]))
             ELSE Return(Some(result))

\* a faulty variant: no except clause
ParseResponseNoExcept(data) == parse_response_try(data)

\* parse_response: any Exception of the try block becomes None
parse_response(data) ==
    IF parse_response_try(data).raised THEN Return(None) ELSE parse_response_try(data)

\* ------------------------------------------------------------------------
\* BPIO2Protocol: COBS framing
\* ------------------------------------------------------------------------

\* the most data bytes one code byte covers (code 0xFF)
CobsMaxBlock == 254

\* cobs.encode: the loop over the input, taken one emitted block at a time.
\* start is the position after the latest zero or full block (search_start_idx),
\* final_zero whether a closing code byte is due when nothing is pending.  The
\* loop emits at the first zero at or after start, or at the byte that fills a
\* block, whichever comes first.
NextStop(in, start) ==
    LET stops == {i \in start..Len(in) : in[i] = 0 \/ i - start = CobsMaxBlock - 1}
    IN  IF stops = {} THEN 0 ELSE CHOOSE i \in stops : \A j \in stops : i <= j

RECURSIVE cobs_encode_loop(_, _, _, _)
cobs_encode_loop(in, start, final_zero, out) ==
    LET idx == NextStop(in, start)
    IN  IF idx = 0
        THEN IF Len(in) + 1 # start \/ final_zero
             THEN out \o <<Len(in) + 1 - start + 1>> \o SubSeq(in, start, Len(in))
             ELSE out
        ELSE IF in[idx] = 0
             THEN cobs_encode_loop(in, idx + 1, TRUE,
                                   out \o <<idx - start + 1>> \o SubSeq(in, start, idx - 1))
             ELSE cobs_encode_loop(in, idx + 1, FALSE,
                                   out \o <<CobsMaxBlock + 1>> \o SubSeq(in, start, idx))

cobs_encode(in) == cobs_encode_loop(in, 1, TRUE, <<>>)

\* the outcome of a decode: the bytes, or DecodeError
Decoded(bytes) == [state |-> "ok", value |-> bytes]
DecodeError == [state |-> "error", value |-> <<>>]

\* cobs.decode: the loop over the code bytes.  idx is the position of a code byte.
RECURSIVE cobs_decode_loop(_, _, _)
cobs_decode_loop(in, idx, out) ==
    LET length == in[idx]
        end == idx + length
        copy == SubSeq(in, idx + 1, IF end - 1 > Len(in) THEN Len(in) ELSE end - 1)
    IN  IF length = 0 THEN DecodeError
        ELSE IF \E i \in DOMAIN copy : copy[i] = 0 THEN DecodeError
        ELSE IF end > Len(in) + 1 THEN DecodeError
        ELSE IF end <= Len(in)
             THEN cobs_decode_loop(in, end,
                      IF length < CobsMaxBlock + 1 THEN out \o copy \o <<0>>
                      ELSE out \o copy)
             ELSE Decoded(out \o copy)

cobs_decode(in) == IF Len(in) = 0 THEN Decoded(<<>>) ELSE cobs_decode_loop(in, 1, <<>>)

\* a faulty variant: the terminator left out
EncodeMessageNoTerminator(flatbuffer_data) == cobs_encode(flatbuffer_data)

\* encode_message: the COBS encoding followed by the terminator 0x00
encode_message(flatbuffer_data) == cobs_encode(flatbuffer_data) \o <<0>>

\* a faulty variant: the last byte taken for the terminator and dropped
DecodeMessageDropsLast(cobs_data) ==
    cobs_decode(SubSeq(cobs_data, 1, Len(cobs_data) - 1))

\* decode_message: cobs_data is the frame without its terminator
decode_message(cobs_data) == cobs_decode(cobs_data)

\* ------------------------------------------------------------------------
\* The arguments the protocol object is called with
\* ------------------------------------------------------------------------

OptBool == {None, Some(TRUE), Some(FALSE)}
OptMv == {None, Some(0), Some(MaxArg)}
OptMa == {None, Some(MaxArg)}
OptMode == {None, Some(""), Some("SPI")}
\* mode_config dictionaries over two keys, one encoded and one not
ConfigDicts == UNION {[S -> {MaxArg}] : S \in SUBSET {"speed", "parity"}}
OptConfig == {None} \cup {Some(d) : d \in ConfigDicts}
OptBytes == {None, Some(<<>>), Some(<<MaxArg>>)}
OptQuery == {None, Some(<<"Mode">>)}

ConfigArgs ==
    [mode : OptMode, mode_config : OptConfig, psu_enable : OptBool,
     psu_voltage_mv : OptMv, psu_current_ma : OptMa, pullup_enable : OptBool]
DataArgs ==
    [write_data : OptBytes, read_len : 0..MaxArg, start : BOOLEAN, stop : BOOLEAN,
     start_alt : {FALSE}, stop_alt : {FALSE}]
StatusArgs == [query_types : OptQuery]

DefaultConfigArgs ==
    [mode |-> None, mode_config |-> None, psu_enable |-> None,
     psu_voltage_mv |-> None, psu_current_ma |-> None, pullup_enable |-> None]
DefaultDataArgs ==
    [write_data |-> None, read_len |-> 0, start |-> FALSE, stop |-> FALSE,
     start_alt |-> FALSE, stop_alt |-> FALSE]
DefaultStatusArgs == [query_types |-> None]

Errors == {None, Some(""), Some("err")}
ResponsePackets(type) ==
    CASE type = "StatusResponse" ->
           [error : Errors, mode_current : {None, Some("HiZ")},
            psu_enabled : BOOLEAN, pullup_enabled : {FALSE}]
      [] type = "ConfigurationResponse" -> [error : Errors]
      [] type = "DataResponse" -> [error : Errors, data_read : {<<>>, <<MaxArg>>}]
      [] OTHER -> {[error |-> None]}
ResponseInputs ==
    UNION {[root_ok : BOOLEAN, packet_ok : BOOLEAN, sequence : {0, MaxArg},
            packet_type : {t}, packet : ResponsePackets(t)] : t \in ResponseTypes}

\* Payloads: any bytes, then a run of non-zero bytes around the length one
\* code byte covers, then any bytes
AffixBytes == {0, 1, 255}
Affixes == UNION {[1..n -> AffixBytes] : n \in 0..MaxAffix}
RunLengths == {0, CobsMaxBlock - 1, CobsMaxBlock, CobsMaxBlock + 1, 2 * CobsMaxBlock}
Run(n) == [i \in 1..n |-> 7]
Payloads == {a \o Run(n) \o b : a \in Affixes, n \in RunLengths, b \in Affixes}

\* ------------------------------------------------------------------------
\* BPIO2Protocol: the operations
\* ------------------------------------------------------------------------

\* what an observer of the issued numbers records about a builder call
Observe(issued) ==
    /\ nCalls' = nCalls + 1
    /\ probe' = probe
    /\ IF issued = probe
       THEN probeAt' = nCalls + 1 /\ probePrev' = probeAt
       ELSE UNCHANGED <<probeAt, probePrev>>

build_status_request(a) ==
    /\ request' = Some(RequestPacket(next_sequence_value(_sequence), "StatusRequest",
                                     StatusRequestPacket(a.query_types)))
    /\ _sequence' = next_sequence_counter(_sequence)
    /\ call' = [method |-> "build_status_request", args |-> a]
    /\ Observe(next_sequence_value(_sequence))
    /\ UNCHANGED <<parsed, backendVars, obsVars, otherVars, i2cVars>>

build_configuration_request(a) ==
    /\ request' = Some(RequestPacket(next_sequence_value(_sequence), "ConfigurationRequest",
                         ConfigurationRequestPacket(a.mode, a.mode_config, a.psu_enable,
                             a.psu_voltage_mv, a.psu_current_ma, a.pullup_enable)))
    /\ _sequence' = next_sequence_counter(_sequence)
    /\ call' = [method |-> "build_configuration_request", args |-> a]
    /\ Observe(next_sequence_value(_sequence))
    /\ UNCHANGED <<parsed, backendVars, obsVars, otherVars, i2cVars>>

build_data_request(a) ==
    /\ request' = Some(RequestPacket(next_sequence_value(_sequence), "DataRequest",
                         DataRequestPacket(a.write_data, a.read_len, a.start, a.stop,
                                           a.start_alt, a.stop_alt)))
    /\ _sequence' = next_sequence_counter(_sequence)
    /\ call' = [method |-> "build_data_request", args |-> a]
    /\ Observe(next_sequence_value(_sequence))
    /\ UNCHANGED <<parsed, backendVars, obsVars, otherVars, i2cVars>>

ParseResponse(data) ==
    /\ parsed' = Some(parse_response(data))
    /\ call' = [method |-> "parse_response", args |-> data]
    /\ UNCHANGED <<_sequence, request, monVars, backendVars, obsVars, otherVars, i2cVars>>

\* encode_message on the payload
EncodeMessage ==
    /\ frame' = encode_message(payload)
    /\ decoded' = [state |-> "none", value |-> <<>>]
    /\ UNCHANGED <<payload, protoVars, monVars, port, backendVars, obsVars, i2cVars, sweepVars, condVars, toolVars>>

\* decode_message on the latest frame, its terminator removed by the receiver
DecodeMessage ==
    /\ Len(frame) > 0
    /\ decoded' = decode_message(SubSeq(frame, 1, Len(frame) - 1))
    /\ UNCHANGED <<payload, frame, protoVars, monVars, port, backendVars, obsVars, i2cVars, sweepVars, condVars, toolVars>>

\* ------------------------------------------------------------------------
\* The glitch sweep: the CLI command and GlitchBackend.run_glitch_sweep
\* ------------------------------------------------------------------------

SweepArgs ==
    [width_min : 0..MaxSpan, width_max : 0..MaxSpan, width_step : 1..MaxStep,
     offset_min : 0..MaxSpan, offset_max : 0..MaxSpan, offset_step : 1..MaxStep,
     attempts : 0..MaxAttempts]

\* glitch_sweep (cli.py), "Calculate total iterations"; // is floor division
announced_total(a) ==
    ((a.width_max - a.width_min) \div a.width_step + 1)
        * ((a.offset_max - a.offset_min) \div a.offset_step + 1) * a.attempts

NoSweep ==
    [pc |-> "idle", args |-> <<>>, total |-> 0, width |-> 0, offset |-> 0,
     attempt |-> 0, results |-> <<>>, triggers |-> 0]

\* the command up to the call of run_glitch_sweep: the total announced, the
\* outer loop about to draw its first width
sweep_command(a) ==
    [pc |-> "width", args |-> a, total |-> announced_total(a),
     width |-> a.width_min, offset |-> a.offset_min, attempt |-> 0,
     results |-> <<>>, triggers |-> 0]

GlitchSweepCommand ==
    /\ sweep.pc = "idle"
    /\ \E a \in SweepArgs : sweep' = sweep_command(a)
    /\ UNCHANGED <<protoVars, monVars, port, backendVars, obsVars, frameVars, i2cVars, condVars, toolVars>>

\* a faulty variant: the range taken without its upper end
SweepWidthExclusive ==
    /\ sweep.pc = "width"
    /\ sweep' = IF sweep.width < sweep.args.width_max
                THEN [sweep EXCEPT !.pc = "offset", !.offset = sweep.args.offset_min]
                ELSE [sweep EXCEPT !.pc = "done"]
    /\ UNCHANGED <<protoVars, monVars, port, backendVars, obsVars, frameVars, i2cVars, condVars, toolVars>>

\* for width in range(width_min, width_max + 1, width_step)
SweepWidth ==
    /\ sweep.pc = "width"
    /\ sweep' = IF sweep.width <= sweep.args.width_max
                THEN [sweep EXCEPT !.pc = "offset", !.offset = sweep.args.offset_min]
                ELSE [sweep EXCEPT !.pc = "done"]
    /\ UNCHANGED <<protoVars, monVars, port, backendVars, obsVars, frameVars, i2cVars, condVars, toolVars>>

\* for offset in range(offset_min, offset_max + 1, offset_step): configure_glitch
SweepOffset ==
    /\ sweep.pc = "offset"
    /\ sweep' = IF sweep.offset <= sweep.args.offset_max
                THEN [sweep EXCEPT !.pc = "attempt", !.attempt = 0]
                ELSE [sweep EXCEPT !.pc = "width",
                                   !.width = sweep.width + sweep.args.width_step]
    /\ UNCHANGED <<protoVars, monVars, port, backendVars, obsVars, frameVars, i2cVars, condVars, toolVars>>

\* for attempt in range(attempts_per_setting): arm, trigger, one result appended
SweepAttempt ==
    /\ sweep.pc = "attempt"
    /\ sweep' = IF sweep.attempt < sweep.args.attempts
                THEN [sweep EXCEPT !.attempt = sweep.attempt + 1,
                                   !.triggers = sweep.triggers + 1,
                                   !.results = Append(sweep.results,
                                       [width_ns |-> sweep.width, offset_ns |-> sweep.offset,
                                        attempt |-> sweep.attempt])]
                ELSE [sweep EXCEPT !.pc = "offset",
                                   !.offset = sweep.offset + sweep.args.offset_step]
    /\ UNCHANGED <<protoVars, monVars, port, backendVars, obsVars, frameVars, i2cVars, condVars, toolVars>>

\* ------------------------------------------------------------------------
\* glitch-o-bolt: check_conditions
\* ------------------------------------------------------------------------

\* Text is a list of characters.  A condition is [name, enabled, trigger, action]
\* in the configuration; its name plays no part and is left out.

\* a faulty variant: the condition's switch not consulted
CheckPositionsIgnoreSwitch(buffer, condition, pos) ==
    IF \E p \in pos..(Len(buffer) - Len(condition.trigger) + 1) :
           SubSeq(buffer, p, p + Len(condition.trigger) - 1) = condition.trigger
    THEN Some(condition.action)
    ELSE None

\* the loop over the starting positions of one condition's trigger string:
\* the action at the first match if the switch is on
RECURSIVE check_positions(_, _, _)
check_positions(buffer, condition, pos) ==
    IF pos > Len(buffer) - Len(condition.trigger) + 1 THEN None
    ELSE IF SubSeq(buffer, pos, pos + Len(condition.trigger) - 1) = condition.trigger
         THEN IF ~condition.enabled
              THEN check_positions(buffer, condition, pos + 1)
              ELSE Some(condition.action)
         ELSE check_positions(buffer, condition, pos + 1)

\* the loop over the conditions, from index i on
RECURSIVE check_conditions_from(_, _, _)
check_conditions_from(conds, i, buffer) ==
    IF i > Len(conds) THEN None
    ELSE IF Len(conds[i].trigger) = 0
         THEN check_conditions_from(conds, i + 1, buffer)
         ELSE IF check_positions(buffer, conds[i], 1) # None
              THEN check_positions(buffer, conds[i], 1)
              ELSE check_conditions_from(conds, i + 1, buffer)

\* check_conditions
check_conditions(conds, buffer) ==
    IF Len(conds) = 0 THEN None ELSE check_conditions_from(conds, 1, buffer)

\* the characters received and the trigger strings configured
Characters == {"a", "b"}
TriggerStrings == {<<>>, <<"a">>, <<"b">>, <<"a", "b">>}
\* the actions of a configuration, by the index of their condition
ActionNames == <<"stop_glitching", "start_chal_02", "glitched_too_far", "perform_glitch">>
Configurations ==
    UNION {{c \in [1..n -> [enabled : BOOLEAN, trigger : TriggerStrings,
                            action : {ActionNames[k] : k \in DOMAIN ActionNames}]] :
               \A i \in 1..n : c[i].action = ActionNames[i]} : n \in 0..MaxConditions}

NotChecked == [checked |-> FALSE, buffer |-> <<>>, action |-> None]

\* the condition's switch in the interface
ToggleCondition ==
    /\ \E index \in DOMAIN conditions :
          conditions' = [conditions EXCEPT ![index].enabled = ~conditions[index].enabled]
    /\ matched' = NotChecked
    /\ UNCHANGED <<serial_buffer, protoVars, monVars, port, backendVars, obsVars,
                   frameVars, i2cVars, sweepVars, toolVars>>

\* text arrives on the serial port
ReceiveText ==
    /\ Len(serial_buffer) < MaxBuffer
    /\ \E ch \in Characters : serial_buffer' = Append(serial_buffer, ch)
    /\ matched' = NotChecked
    /\ UNCHANGED <<conditions, protoVars, monVars, port, backendVars, obsVars,
                   frameVars, i2cVars, sweepVars, toolVars>>

\* the monitor checks the buffer against the conditions
CheckConditions ==
    /\ matched' = [checked |-> TRUE, buffer |-> serial_buffer,
                   action |-> check_conditions(conditions, serial_buffer)]
    /\ UNCHANGED <<conditions, serial_buffer, protoVars, monVars, port, backendVars,
                   obsVars, frameVars, i2cVars, sweepVars, toolVars>>

\* ------------------------------------------------------------------------
\* glitch-o-bolt: monitor_buffer
\* ------------------------------------------------------------------------

\* the buffer size when no condition has a trigger string
DefaultBufferSize == 256

Max(S) == CHOOSE m \in S : \A x \in S : x <= m

\* get_conditions_buffer_size: the longest non-empty trigger string
get_conditions_buffer_size(conds) ==
    LET valid_lengths == {Len(conds[i].trigger) :
                              i \in {j \in DOMAIN conds : Len(conds[j].trigger) > 0}}
    IN  IF Len(conds) = 0 \/ valid_lengths = {} THEN DefaultBufferSize
        ELSE Max(valid_lengths)

\* str.rfind(ch, 0, end): the highest 0-based index below end that holds ch, or -1
rfind(text, ch, end) ==
    LET hits == {k \in 0..(end - 1) : text[k + 1] = ch}
    IN  IF hits = {} THEN -1 ELSE Max(hits)

\* text[keep_from:], keep_from a 0-based index within the text
SliceFrom(text, keep_from) == SubSeq(text, keep_from + 1, Len(text))

\* the truncation step of one iteration: what the buffer is cut down to
truncated(current_buffer, buffer_size) ==
    LET max_keep == buffer_size * 3
        keep_from == Len(current_buffer) - max_keep
        safe_cut == rfind(current_buffer, "\n", keep_from)
    IN  IF Len(current_buffer) > max_keep
        THEN IF safe_cut # -1
             THEN SliceFrom(current_buffer, safe_cut + 1)
             ELSE SliceFrom(current_buffer, keep_from)
        ELSE current_buffer

\* execute_condition_action: the named function is looked up and called.  It
\* returns (True), it raises after it was entered (False), or no module has
\* it (False).
ActionOutcomes == {"returned", "raised", "not_found"}
execute_condition_action(outcome) == outcome = "returned"
Entered(outcome) == outcome \in {"returned", "raised"}

\* observer: where in the buffer the condition that check_conditions acts on
\* has its trigger string first (1-based), and which condition it is
ActedOn(conds, buffer) ==
    LET hit(i) == {p \in 1..(Len(buffer) - Len(conds[i].trigger) + 1) :
                       SubSeq(buffer, p, p + Len(conds[i].trigger) - 1) = conds[i].trigger}
        live == {i \in DOMAIN conds :
                     conds[i].enabled /\ Len(conds[i].trigger) > 0 /\ hit(i) # {}}
        first == CHOOSE i \in live : \A j \in live : i <= j
    IN  [condition |-> first,
         at |-> CHOOSE p \in hit(first) : \A q \in hit(first) : p <= q]

NotRun ==
    [ran |-> FALSE, found |-> <<>>, max_keep |-> 0, kept |-> <<>>, action |-> None,
     outcome |-> "none", left |-> <<>>]
NoStream == [dropped |-> 0, entered |-> {}, again |-> FALSE]

\* the characters the target sends
StreamCharacters == {"a", "\n"}

\* read_serial_loop: decoded text is appended to the buffer
ReadSerialLoop ==
    /\ stream.dropped + Len(serial_buffer) < MaxStream
    /\ \E decoded_ch \in StreamCharacters :
          serial_buffer' = Append(serial_buffer, decoded_ch)
    /\ UNCHANGED <<conditions, matched, watchVars, coreVars, trigVars, uartVars,
                   bruteVars, paramVars, deviceVars>>

\* one iteration of monitor_buffer's loop with the serial port connected.
\* buffer_size is computed once when the task starts; the trigger strings do
\* not change afterwards, so it is the same at every iteration.
MonitorBuffer ==
    LET buffer_size == get_conditions_buffer_size(conditions)
        current_buffer == truncated(serial_buffer, buffer_size)
        action == IF Len(current_buffer) > 0
                  THEN check_conditions(conditions, current_buffer)
                  ELSE None
    IN  \E outcome \in (IF action = None THEN {"none"} ELSE ActionOutcomes) :
          LET success == action # None /\ execute_condition_action(outcome)
              cut == Len(serial_buffer) - Len(current_buffer)
              dropped_after == stream.dropped + cut
                                 + (IF success THEN Len(current_buffer) ELSE 0)
              occurrence == [condition |-> ActedOn(conditions, current_buffer).condition,
                             at |-> stream.dropped + cut
                                      + ActedOn(conditions, current_buffer).at]
          IN  /\ serial_buffer' = IF success THEN <<>> ELSE current_buffer
              /\ monitor' = [ran |-> TRUE, found |-> serial_buffer,
                             max_keep |-> buffer_size * 3, kept |-> current_buffer,
                             action |-> action, outcome |-> outcome,
                             left |-> serial_buffer']
              /\ stream' =
                    [dropped |-> dropped_after,
                     entered |-> {o \in (IF action # None /\ Entered(outcome)
                                         THEN stream.entered \cup {occurrence}
                                         ELSE stream.entered) : o.at > dropped_after},
                     again |-> \/ stream.again
                               \/ /\ action # None
                                  /\ Entered(outcome)
                                  /\ occurrence \in stream.entered]
              /\ UNCHANGED <<conditions, matched, coreVars, trigVars, uartVars,
                             bruteVars, paramVars, deviceVars>>

\* ------------------------------------------------------------------------
\* glitch-o-bolt: the triggers
\* ------------------------------------------------------------------------

\* A trigger is config.triggers[index] = [symbol, enabled], with the two
\* widgets that show it: the symbol display and the switch.  Python's index i
\* is position i + 1 of the list.

\* cycle, and cycle.index(symbol) as a 0-based index
cycle == <<"^", "v", "-">>
cycle_index(symbol) == (CHOOSE k \in DOMAIN cycle : cycle[k] = symbol) - 1

\* a faulty variant: the cycle walked the other way
ToggleTriggerBackwards(trigs, index) ==
    LET current_symbol == trigs[index + 1].symbol
        next_symbol == cycle[((cycle_index(current_symbol) + 2) % Len(cycle)) + 1]
    IN  [trigs EXCEPT ![index + 1] = [symbol |-> next_symbol, enabled |-> FALSE,
                                      shown |-> next_symbol, switch |-> FALSE]]

\* toggle_trigger: the next symbol of the cycle, the trigger switched off
toggle_trigger(trigs, index) ==
    LET current_symbol == trigs[index + 1].symbol
        next_symbol == cycle[((cycle_index(current_symbol) + 1) % Len(cycle)) + 1]
    IN  [trigs EXCEPT ![index + 1] = [symbol |-> next_symbol, enabled |-> FALSE,
                                      shown |-> next_symbol, switch |-> FALSE]]

\* set_trigger_string: a value outside the valid ones raises before any change
set_trigger_string(trigs, index, value) ==
    IF value \notin {"^", "v", "-"} THEN trigs
    ELSE [trigs EXCEPT ![index + 1] = [symbol |-> value, enabled |-> FALSE,
                                       shown |-> value, switch |-> FALSE]]

\* the values a caller may pass to set_trigger_string
TriggerValues == {"^", "v", "-", "x"}

NoToggle == [index |-> -1, count |-> 0, from |-> "-", before |-> <<>>]

\* the symbol button of a trigger is pressed
ToggleTrigger ==
    /\ \E index \in 0..(Len(triggers) - 1) :
          /\ triggers' = toggle_trigger(triggers, index)
          /\ toggled' =
                IF toggled.index = index /\ toggled.count \in 1..2
                THEN [toggled EXCEPT !.count = @ + 1, !.before = triggers]
                ELSE [index |-> index, count |-> 1, from |-> triggers[index + 1].symbol,
                      before |-> triggers]
    /\ UNCHANGED <<coreVars, condVars, watchVars, uartVars, bruteVars, paramVars,
                   deviceVars>>

\* a configuration function sets a trigger's symbol
SetTriggerString ==
    /\ \E index \in 0..(Len(triggers) - 1), value \in TriggerValues :
          triggers' = set_trigger_string(triggers, index, value)
    /\ toggled' = NoToggle
    /\ UNCHANGED <<coreVars, condVars, watchVars, uartVars, bruteVars, paramVars,
                   deviceVars>>

\* on_switch_changed for a trigger switch: the user flips the switch
TriggerSwitchChanged ==
    /\ \E index \in 0..(Len(triggers) - 1) :
          triggers' = [triggers EXCEPT ![index + 1].switch = ~triggers[index + 1].switch,
                                       ![index + 1].enabled = ~triggers[index + 1].switch]
    /\ toggled' = NoToggle
    /\ UNCHANGED <<coreVars, condVars, watchVars, uartVars, bruteVars, paramVars,
                   deviceVars>>

\* ------------------------------------------------------------------------
\* glitch-o-bolt: send_uart_message
\* ------------------------------------------------------------------------

\* str.endswith
EndsWith(text, suffix) ==
    /\ Len(suffix) <= Len(text)
    /\ SubSeq(text, Len(text) - Len(suffix) + 1, Len(text)) = suffix

\* str.encode("utf-8") on the characters drawn: one byte each
Utf8 == [ch \in {"a", "\r", "\n"} |-> IF ch = "a" THEN 97 ELSE IF ch = "\r" THEN 13 ELSE 10]
encode_utf8(text) == [k \in DOMAIN text |-> Utf8[text[k]]]

\* lines 541-545: the message as it is sent for a configured newline
normalised(message, newline) ==
    IF Len(newline) > 0
    THEN (IF EndsWith(message, newline)
          THEN SubSeq(message, 1, Len(message) - Len(newline))
          ELSE message) \o newline
    ELSE message

\* send_uart_message: nothing is written without an open connection;
\* conn.write raising is caught
WriteOutcomes == {"written", "raised"}
send_uart_message(message, newline, is_open, outcome) ==
    IF ~is_open
    THEN [called |-> TRUE, given |-> message, ret |-> FALSE, message |-> None, raw |-> None]
    ELSE IF outcome = "raised"
         THEN [called |-> TRUE, given |-> message, ret |-> FALSE,
               message |-> Some(normalised(message, newline)), raw |-> None]
         ELSE [called |-> TRUE, given |-> message, ret |-> TRUE,
               message |-> Some(normalised(message, newline)),
               raw |-> Some(encode_utf8(normalised(message, newline)))]

\* config.UART_NEWLINE, and the messages given
Newlines == {<<>>, <<"\n">>, <<"\r", "\n">>}
MessageCharacters == {"a", "\r", "\n"}
Messages == UNION {[1..n -> MessageCharacters] : n \in 0..MaxMessage}

NoSend == [called |-> FALSE, given |-> <<>>, ret |-> FALSE, message |-> None, raw |-> None]
NoUart == [newline |-> <<>>, is_open |-> FALSE, first |-> NoSend, second |-> NoSend]

\* the serial connection is opened or closed
UartSwitch ==
    /\ uart' = [uart EXCEPT !.is_open = ~uart.is_open, !.first = NoSend, !.second = NoSend]
    /\ UNCHANGED <<coreVars, condVars, watchVars, trigVars, bruteVars, paramVars,
                   deviceVars>>

\* send_uart_message(message)
SendUartMessage ==
    /\ \E message \in Messages, outcome \in WriteOutcomes :
          uart' = [uart EXCEPT
                      !.first = send_uart_message(message, uart.newline, uart.is_open,
                                                  outcome),
                      !.second = NoSend]
    /\ UNCHANGED <<coreVars, condVars, watchVars, trigVars, bruteVars, paramVars,
                   deviceVars>>

\* send_uart_message(m) for the m that the call before sent
SendUartMessageAgain ==
    /\ uart.first.called
    /\ uart.first.message # None
    /\ ~uart.second.called
    /\ \E outcome \in WriteOutcomes :
          uart' = [uart EXCEPT
                      !.second = send_uart_message(TheValue(uart.first.message),
                                                   uart.newline, uart.is_open, outcome)]
    /\ UNCHANGED <<coreVars, condVars, watchVars, trigVars, bruteVars, paramVars,
                   deviceVars>>

\* ------------------------------------------------------------------------
\* glitch-o-bolt: the brute-force configuration (ConfigGlitchBrute.py)
\* ------------------------------------------------------------------------

\* the module globals as the file sets them, and no call made
NoBruteCall == [name |-> "none", parameter |-> "none", amount |-> 0]
InitialBrute ==
    [increment_delay |-> TRUE, increment_length |-> TRUE,
     inc_delay_amount |-> 100, inc_repeat_amount |-> 100, inc_length_amount |-> 100,
     length |-> 1, repeat |-> 1, delay |-> 1,
     calls |-> 0, latest |-> NoBruteCall, performed |-> <<>>, amounts_before |-> <<100, 100, 100>>]

\* the amounts, in the order delay, repeat, length
Amounts(b) == <<b.inc_delay_amount, b.inc_repeat_amount, b.inc_length_amount>>

\* the value of a parameter changed by an amount (get_config_value, set_config_value)
WithValue(b, parameter, amount) ==
    IF parameter = "delay" THEN [b EXCEPT !.delay = @ + amount]
    ELSE IF parameter = "length" THEN [b EXCEPT !.length = @ + amount]
    ELSE [b EXCEPT !.repeat = @ + amount]

\* perform_glitch: which parameter it increments, by how much, and the flags after
perform_glitch(b) ==
    LET to_increment == IF b.increment_delay THEN "delay"
                        ELSE IF b.increment_length THEN "length" ELSE "repeat"
        increment_amount == IF b.increment_delay THEN b.inc_delay_amount
                            ELSE IF b.increment_length THEN b.inc_length_amount
                            ELSE b.inc_repeat_amount
        flags == IF b.increment_delay
                 THEN [b EXCEPT !.increment_delay = FALSE]
                 ELSE IF b.increment_length
                      THEN [b EXCEPT !.increment_length = FALSE, !.increment_delay = TRUE]
                      ELSE [b EXCEPT !.increment_length = TRUE, !.increment_delay = TRUE]
    IN  [WithValue(flags, to_increment, increment_amount) EXCEPT
            !.calls = @ + 1,
            !.latest = [name |-> "perform_glitch", parameter |-> to_increment,
                        amount |-> increment_amount],
            !.performed = Append(@, [parameter |-> to_increment,
                                      amount |-> increment_amount, call |-> b.calls + 1]),
            !.amounts_before = Amounts(b)]

\* lines 117-122: the amount for next time
new_inc_amount(current_inc_amount) ==
    IF current_inc_amount = 100 THEN 10
    ELSE IF current_inc_amount = 10 THEN 1
    ELSE current_inc_amount

\* glitched_too_far: which parameter it decrements, by how much, and its new amount
glitched_too_far(b) ==
    LET to_decrement == IF b.increment_delay
                        THEN (IF b.increment_length THEN "repeat" ELSE "length")
                        ELSE "delay"
        current_inc_amount == IF b.increment_delay
                              THEN (IF b.increment_length THEN b.inc_repeat_amount
                                    ELSE b.inc_length_amount)
                              ELSE b.inc_delay_amount
        narrowed == IF to_decrement = "delay"
                    THEN [b EXCEPT !.inc_delay_amount = new_inc_amount(current_inc_amount)]
                    ELSE IF to_decrement = "length"
                         THEN [b EXCEPT !.inc_length_amount = new_inc_amount(current_inc_amount)]
                         ELSE [b EXCEPT !.inc_repeat_amount = new_inc_amount(current_inc_amount)]
    IN  [WithValue(narrowed, to_decrement, 0 - current_inc_amount) EXCEPT
            !.calls = @ + 1,
            !.latest = [name |-> "glitched_too_far", parameter |-> to_decrement,
                        amount |-> current_inc_amount],
            !.amounts_before = Amounts(b)]

\* the condition "std" fires
PerformGlitch ==
    /\ brute.calls < MaxGlitchCalls
    /\ brute' = perform_glitch(brute)
    /\ UNCHANGED <<coreVars, condVars, watchVars, trigVars, uartVars, paramVars,
                   deviceVars>>

\* the condition "pt2" fires
GlitchedTooFar ==
    /\ brute.calls < MaxGlitchCalls
    /\ brute' = glitched_too_far(brute)
    /\ UNCHANGED <<coreVars, condVars, watchVars, trigVars, uartVars, paramVars,
                   deviceVars>>

\* ------------------------------------------------------------------------
\* The hwh terminal interface: the glitch parameter buttons
\* ------------------------------------------------------------------------

\* str(n) and int(text) for decimal integers, a text being a list of characters
Digits == <<"0", "1", "2", "3", "4", "5", "6", "7", "8", "9">>
RECURSIVE str_digits(_)
str_digits(n) ==
    IF n < 10 THEN <<Digits[n + 1]>> ELSE Append(str_digits(n \div 10), Digits[(n % 10) + 1])
str(n) == IF n < 0 THEN <<"-">> \o str_digits(0 - n) ELSE str_digits(n)
digit_value(ch) == (CHOOSE k \in DOMAIN Digits : Digits[k] = ch) - 1
RECURSIVE int_digits(_)
int_digits(text) ==
    IF Len(text) = 0 THEN 0
    ELSE 10 * int_digits(SubSeq(text, 1, Len(text) - 1)) + digit_value(text[Len(text)])
int(text) == IF text[1] = "-" THEN 0 - int_digits(Tail(text)) ELSE int_digits(text)

\* the parameters, and the directions and amounts of their adjust buttons
ParamNames == {"length", "repeat", "delay"}
Directions == {"pos", "neg"}
ButtonAmounts == {1, 10, 100}

\* a faulty variant: the sum taken as it is
NewValueUnclamped(current_value, adjustment) == current_value + adjustment

\* line 398: max(0, current_value + adjustment)
new_value(current_value, adjustment) ==
    IF current_value + adjustment > 0 THEN current_value + adjustment ELSE 0

NoPress == [param_name |-> "none", direction |-> "none", amount |-> 0]
InitialParams == [length |-> 0, repeat |-> 0, delay |-> 0]

\* handle_param_adjust(button_id) for one of the eighteen adjust buttons
\* "<param>-<neg|pos>-<amount>", or for a save button "<param>-save", whose id
\* has two parts and is left at once
HandleParamAdjust ==
    /\ presses.count < MaxPresses
    /\ \/ \E param_name \in ParamNames, direction \in Directions, amount \in ButtonAmounts :
             LET adjustment == IF direction = "pos" THEN amount ELSE 0 - amount
                 shown == inputs[param_name]
                 current_value == int(IF Len(shown) = 0 THEN <<"0">> ELSE shown)
                 value == new_value(current_value, adjustment)
             IN  /\ inputs' = [inputs EXCEPT ![param_name] = str(value)]
                 /\ glitch' = [glitch EXCEPT ![param_name] = value]
                 /\ presses' = [count |-> presses.count + 1,
                                latest |-> [param_name |-> param_name,
                                            direction |-> direction, amount |-> amount],
                                before |-> glitch]
       \/ \E param_name \in ParamNames :
             /\ presses' = [count |-> presses.count + 1,
                            latest |-> [param_name |-> param_name,
                                        direction |-> "save", amount |-> 0],
                            before |-> glitch]
             /\ UNCHANGED <<inputs, glitch>>
    /\ UNCHANGED <<coreVars, condVars, watchVars, trigVars, uartVars, bruteVars,
                   deviceVars>>

\* ------------------------------------------------------------------------
\* The hwh terminal interface: connecting and disconnecting devices
\* ------------------------------------------------------------------------

\* self.available_devices as detect() filled it: the devices and which of them
\* have the capability "glitch"; one id more that no device has
AvailableDevices == {"bolt", "faultycat", "buspirate"}
GlitchDevices == {"bolt", "faultycat"}
DeviceIds == AvailableDevices \cup {"unknown"}

\* what backend.connect() and backend.disconnect() may do
ConnectOutcomes == {"True", "False", "raised"}
DisconnectOutcomes == {"returned", "raised"}

NoConnections == [d \in AvailableDevices |-> None]
NoEvent ==
    [event |-> "none", device_id |-> "none", outcome |-> "none",
     before |-> [connections |-> NoConnections, selected |-> None]]
Keys(conns) == {d \in DOMAIN conns : conns[d] # None}

\* connect_device(device_id)
ConnectDevice ==
    \E device_id \in DeviceIds, outcome \in ConnectOutcomes :
        /\ tui' = [event |-> "connect_device", device_id |-> device_id,
                   outcome |-> outcome,
                   before |-> [connections |-> connections, selected |-> selected_device]]
        /\ IF device_id \in Keys(connections) \/ device_id \notin AvailableDevices
           THEN UNCHANGED <<connections, selected_device>>
           ELSE IF outcome = "raised"
                THEN UNCHANGED <<connections, selected_device>>
                ELSE /\ connections' =
                           [connections EXCEPT ![device_id] =
                               Some([connected |-> TRUE,
                                     backend_connected |-> (outcome = "True")])]
                     /\ selected_device' = IF device_id \in GlitchDevices
                                           THEN Some(device_id)
                                           ELSE selected_device
        /\ UNCHANGED <<coreVars, condVars, watchVars, trigVars, uartVars, bruteVars,
                       paramVars>>

\* disconnect_device(device_id)
DisconnectDevice ==
    \E device_id \in DeviceIds, outcome \in DisconnectOutcomes :
        /\ tui' = [event |-> "disconnect_device", device_id |-> device_id,
                   outcome |-> outcome,
                   before |-> [connections |-> connections, selected |-> selected_device]]
        /\ IF device_id \notin Keys(connections)
           THEN UNCHANGED <<connections, selected_device>>
           ELSE IF outcome = "raised"
                THEN UNCHANGED <<connections, selected_device>>
                ELSE /\ connections' = [connections EXCEPT ![device_id] = None]
                     /\ selected_device' = IF selected_device = Some(device_id)
                                           THEN None
                                           ELSE selected_device
        /\ UNCHANGED <<coreVars, condVars, watchVars, trigVars, uartVars, bruteVars,
                       paramVars>>

\* ------------------------------------------------------------------------
\* The pybpio client and wrappers, as BusPirateBackend uses them
\* ------------------------------------------------------------------------

\* Python values, as the caller sees them
PyTrue == "True"
PyFalse == "False"
PyNone == "None"
EmptyBytes == "b''"
SomeBytes == "bytes"
NoValue == "-"

Truthy(v) == v \in {PyTrue, SomeBytes}

\* What the client may answer.  A request that gets no response within the
\* timeout yields None.
CtorAnswers == {"ok", "raise"}
CloseAnswers == {"ok", "raise"}
StatusAnswers ==
    {[kind |-> "dict", mode_current |-> Some("HiZ")],
     [kind |-> "dict", mode_current |-> None],
     [kind |-> "none", mode_current |-> None],
     [kind |-> "raise", mode_current |-> None]}
ConfigAnswers == {PyTrue, PyFalse, PyNone, "raise"}
DataAnswers == {SomeBytes, EmptyBytes, PyNone, PyFalse, "raise"}

\* BPIOBase.config_check, as BPIOUART.read and write use it: the wrapper's own
\* configured flag
config_check(wrapper) == wrapper.configured

\* BPIOSPI.transfer / BPIOI2C.transfer: what the call returns and the client
\* calls it makes (after BPIOUART.read: config_check, then client.data_request)
wrapper_transfer(wrapper, data_answer) ==
    IF ~config_check(wrapper)
    THEN [result |-> PyNone, calls |-> <<>>, answer |-> NoValue]
    ELSE [result |-> data_answer, calls |-> <<"data_request">>, answer |-> data_answer]

\* BPIOSPI.configure / BPIOI2C.configure (after BPIOUART.configure):
\* success = client.configuration_request(...); self.configured = success
wrapper_configure(wrapper, config_answer) ==
    IF config_answer = "raise" THEN wrapper
    ELSE [wrapper EXCEPT !.configured = Truthy(config_answer)]

\* ------------------------------------------------------------------------
\* BusPirateBackend
\* ------------------------------------------------------------------------

\* the object's fields
Self == [_client |-> _client, _connected |-> _connected, _spi |-> _spi,
         _i2c |-> _i2c, _current_mode |-> _current_mode]

\* an operation's outcome: the fields after it, and what was observed of it
Outcome(b, r, c, a) == [b |-> b, ret |-> r, raised |-> FALSE, calls |-> c, answer |-> a]
Raised(b, c, a) == [b |-> b, ret |-> NoValue, raised |-> TRUE, calls |-> c, answer |-> a]

NewClient == Some("BPIOClient")
NewWrapper == Some([configured |-> FALSE])

\* a faulty variant: close() outside any try, its error leaves disconnect
DisconnectPropagatesCloseError(b, close) ==
    IF b._client # None /\ close = "raise"
    THEN Raised(b, <<"close">>, close)
    ELSE Outcome([b EXCEPT !._client = None, !._spi = None, !._i2c = None,
                           !._connected = FALSE],
                 PyNone, IF b._client # None THEN <<"close">> ELSE <<>>,
                 IF b._client # None THEN close ELSE NoValue)

\* a faulty variant: the connected flag left as it was
DisconnectKeepsConnected(b, close) ==
    Outcome([b EXCEPT !._client = None, !._spi = None, !._i2c = None],
            PyNone,
            IF b._client # None THEN <<"close">> ELSE <<>>,
            IF b._client # None THEN close ELSE NoValue)

\* disconnect: an error of close() is swallowed
disconnect(b, close) ==
    Outcome([b EXCEPT !._client = None, !._spi = None, !._i2c = None,
                      !._connected = FALSE],
            PyNone,
            IF b._client # None THEN <<"close">> ELSE <<>>,
            IF b._client # None THEN close ELSE NoValue)

\* connect, lines 141-145: the handler of the first attempt's exceptions.
\* b holds the client the attempt left in self._client.
connect_except1(b, c, e) ==
    IF b._client = None THEN [next |-> "try2", b |-> b, calls |-> c]
    ELSE IF e.close1b = "raise"
         THEN [next |-> "except", b |-> b, calls |-> c \o <<"close">>]
         ELSE [next |-> "try2", b |-> [b EXCEPT !._client = None],
               calls |-> c \o <<"close">>]

\* connect, lines 116-145: the direct attempt
connect_try1(b, e) ==
    IF e.ctor1 = "raise" THEN connect_except1(b, <<"BPIOClient">>, e)
    ELSE LET b1 == [b EXCEPT !._client = NewClient]
             c1 == <<"BPIOClient", "status_request">>
         IN  CASE e.status1.kind = "dict" ->
                    [next |-> "return True",
                     b |-> [b1 EXCEPT !._connected = TRUE,
                               !._current_mode =
                                   IF e.status1.mode_current = None THEN Some("unknown")
                                   ELSE e.status1.mode_current],
                     calls |-> c1]
               [] e.status1.kind = "none" ->
                    IF e.close1 = "raise"
                    THEN connect_except1(b1, c1 \o <<"close">>, e)
                    ELSE [next |-> "try2", b |-> [b1 EXCEPT !._client = None],
                          calls |-> c1 \o <<"close">>]
               [] OTHER -> connect_except1(b1, c1, e)

\* connect, lines 147-179: binary mode through the console, then the second attempt
connect_try2(b, c, e) ==
    IF ~e.binmode THEN Outcome(b, PyFalse, c, "binmode failed")
    ELSE IF e.ctor2 = "raise" THEN Outcome(b, PyFalse, c \o <<"BPIOClient">>, "open raised")
    ELSE LET b3 == [b EXCEPT !._client = NewClient, !._connected = TRUE]
             c3 == c \o <<"BPIOClient", "status_request">>
         IN  CASE e.status2.kind = "dict" ->
                    Outcome([b3 EXCEPT !._current_mode =
                                 IF e.status2.mode_current = None THEN Some("unknown")
                                 ELSE e.status2.mode_current],
                            PyTrue, c3, "status")
               [] e.status2.kind = "none" ->
                    Outcome(disconnect(b3, e.close2).b, PyFalse,
                            c3 \o disconnect(b3, e.close2).calls, "no status")
               [] OTHER -> Outcome(b3, PyFalse, c3, "status raised")

\* connect
connect(b, e) ==
    IF ~port THEN Outcome(b, PyFalse, <<>>, "no port")
    ELSE LET t1 == connect_try1(b, e)
         IN  CASE t1.next = "return True" -> Outcome(t1.b, PyTrue, t1.calls, "status")
               [] t1.next = "except" -> Outcome(t1.b, PyFalse, t1.calls, "close raised")
               [] OTHER -> connect_try2(t1.b, t1.calls, e)

\* The client's answers during one connect().  An answer connect() never asks
\* for is left at its first value, so that each course of events is listed once.
NotAsked == [kind |-> "none", mode_current |-> None]
ConnectAnswers ==
    {e \in [ctor1 : CtorAnswers, status1 : StatusAnswers, close1 : CloseAnswers,
            close1b : CloseAnswers, binmode : BOOLEAN, ctor2 : CtorAnswers,
            status2 : StatusAnswers, close2 : CloseAnswers] :
        /\ e.ctor1 = "raise" => e.status1 = NotAsked
        /\ (e.ctor1 = "raise" \/ e.status1.kind # "none") => e.close1 = "ok"
        /\ (e.ctor1 = "ok" /\ e.status1.kind = "dict") =>
               e.close1b = "ok" /\ e.binmode /\ e.ctor2 = "ok" /\ e.status2 = NotAsked
        /\ (e.ctor1 = "ok" /\ e.status1.kind = "none" /\ e.close1 = "ok") =>
               e.close1b = "ok"
        /\ ~e.binmode => e.ctor2 = "ok"
        /\ (~e.binmode \/ e.ctor2 = "raise") => e.status2 = NotAsked
        /\ (~e.binmode \/ e.ctor2 = "raise" \/ e.status2.kind # "none"
              \/ (e.ctor1 = "ok" /\ e.status1.kind = "dict")) => e.close2 = "ok"}

\* dict.get(key, default) on a dictionary whose absent entries are {}
DictGet(d, key, default) ==
    IF key \in DOMAIN d /\ d[key] # None THEN d[key] ELSE default

\* connect, lines 127 and 167: the mode read from the status dictionary
connect_mode(status) == DictGet(status, "mode_current", Some("unknown"))

\* a faulty variant: the guard without the _connected test
NotReadyClientOnly(b) == b._client = None

\* the guard "not self._connected or not self._client"
NotReady(b) == ~b._connected \/ b._client = None

\* the guard "not self._connected or not self._spi" (or self._i2c)
NoWrapper(b, w) == ~b._connected \/ w = None

\* a faulty variant: the mode cached whatever the request reports
ConfigureWrapperModeAlways(b, field, mode, config_answer) ==
    IF NotReady(b) THEN Outcome(b, PyFalse, <<>>, NoValue)
    ELSE LET w == IF b[field] = None THEN NewWrapper ELSE b[field]
             w2 == Some(wrapper_configure(TheValue(w), config_answer))
             b2 == [b EXCEPT ![field] = w2]
         IN  IF config_answer = "raise"
             THEN Raised(b2, <<"configuration_request">>, config_answer)
             ELSE Outcome([b2 EXCEPT !._current_mode = Some(mode)],
                          config_answer, <<"configuration_request">>, config_answer)

\* configure_spi / configure_i2c: field is the wrapper's attribute, mode the name cached
configure_wrapper(b, field, mode, config_answer) ==
    IF NotReady(b) THEN Outcome(b, PyFalse, <<>>, NoValue)
    ELSE LET w == IF b[field] = None THEN NewWrapper ELSE b[field]
             w2 == Some(wrapper_configure(TheValue(w), config_answer))
             b2 == [b EXCEPT ![field] = w2]
         IN  IF config_answer = "raise"
             THEN Raised(b2, <<"configuration_request">>, config_answer)
             ELSE Outcome(IF Truthy(config_answer)
                          THEN [b2 EXCEPT !._current_mode = Some(mode)] ELSE b2,
                          config_answer, <<"configuration_request">>, config_answer)

\* configure_uart: the request goes to the client directly
configure_uart(b, config_answer) ==
    IF NotReady(b) THEN Outcome(b, PyFalse, <<>>, NoValue)
    ELSE IF config_answer = "raise"
         THEN Raised(b, <<"configuration_request">>, config_answer)
         ELSE Outcome(IF Truthy(config_answer)
                      THEN [b EXCEPT !._current_mode = Some("UART")] ELSE b,
                      config_answer, <<"configuration_request">>, config_answer)

\* set_psu / set_pullups: the client's answer is returned as it is
set_option(b, config_answer) ==
    IF NotReady(b) THEN Outcome(b, PyFalse, <<>>, NoValue)
    ELSE IF config_answer = "raise"
         THEN Raised(b, <<"configuration_request">>, config_answer)
         ELSE Outcome(b, config_answer, <<"configuration_request">>, config_answer)

\* "result if result else b''"
OrEmptyBytes(result) == IF Truthy(result) THEN result ELSE EmptyBytes

\* "result is not False"
IsNotFalse(result) == IF result = PyFalse THEN PyFalse ELSE PyTrue

\* spi_transfer / i2c_read / i2c_write_read
transfer_bytes(b, w, data_answer) ==
    IF NoWrapper(b, w) THEN Outcome(b, EmptyBytes, <<>>, NoValue)
    ELSE LET t == wrapper_transfer(TheValue(w), data_answer)
         IN  IF t.result = "raise" THEN Raised(b, t.calls, t.answer)
             ELSE Outcome(b, OrEmptyBytes(t.result), t.calls, t.answer)

\* i2c_write
i2c_write(b, data_answer) ==
    IF NoWrapper(b, b._i2c) THEN Outcome(b, PyFalse, <<>>, NoValue)
    ELSE LET t == wrapper_transfer(TheValue(b._i2c), data_answer)
         IN  IF t.result = "raise" THEN Raised(b, t.calls, t.answer)
             ELSE Outcome(b, IsNotFalse(t.result), t.calls, t.answer)

\* uart_read
uart_read(b, data_answer) ==
    IF NotReady(b) THEN Outcome(b, EmptyBytes, <<>>, NoValue)
    ELSE IF data_answer = "raise" THEN Raised(b, <<"data_request">>, data_answer)
         ELSE Outcome(b, OrEmptyBytes(data_answer), <<"data_request">>, data_answer)

\* uart_write
uart_write(b, data_answer) ==
    IF NotReady(b) THEN Outcome(b, PyNone, <<>>, NoValue)
    ELSE IF data_answer = "raise" THEN Raised(b, <<"data_request">>, data_answer)
         ELSE Outcome(b, PyNone, <<"data_request">>, data_answer)

\* Python's integer operators on non-negative integers
RECURSIVE BitAnd(_, _)
BitAnd(x, y) ==
    IF x = 0 \/ y = 0 THEN 0
    ELSE (x % 2) * (y % 2) + 2 * BitAnd(x \div 2, y \div 2)
RECURSIVE BitOr(_, _)
BitOr(x, y) ==
    IF x = 0 THEN y ELSE IF y = 0 THEN x
    ELSE (IF x % 2 = 1 \/ y % 2 = 1 THEN 1 ELSE 0) + 2 * BitOr(x \div 2, y \div 2)
ShiftLeft(x) == x * 2
ShiftRight(x) == x \div 2

\* a faulty variant: the read bit left out
ReadAddrByteNoReadBit(address) == BitAnd(ShiftLeft(address), 255)

\* i2c_write / i2c_write_read: addr_byte = (address << 1) & 0xFE
i2c_write_addr_byte(address) == BitAnd(ShiftLeft(address), 254)
\* i2c_read: addr_byte = ((address << 1) | 1) & 0xFF
i2c_read_addr_byte(address) == BitAnd(BitOr(ShiftLeft(address), 1), 255)

\* what an I2C data operation passed to transfer(): nothing when its guard returned
NoWire == [passed |-> FALSE, address |-> 0, addr_byte |-> 0]
Passed(b, address, addr_byte) ==
    IF NoWrapper(b, b._i2c) THEN NoWire
    ELSE [passed |-> TRUE, address |-> address, addr_byte |-> addr_byte]

\* the 7-bit addresses
SevenBitAddresses == 0..127
\* the address the backend's operations are given where the address is not at issue
BackendAddresses == {80}

\* a set of integers as an ascending list (list(...) then sort())
RECURSIVE SortedList(_)
SortedList(S) ==
    IF S = {} THEN <<>>
    ELSE LET m == CHOOSE x \in S : \A y \in S : x <= y
         IN  <<m>> \o SortedList(S \ {m})

\* BPIOI2C.scan: every address of the range probed through transfer(), in
\* ascending order; a device that acknowledges is reported by the address byte
\* of each form (write, read) it acknowledged.  devices maps each device's
\* address to the forms it acknowledges.  A wrapper that is not configured
\* sends nothing and reports nothing.
wrapper_scan(wrapper, start_addr, end_addr, devices) ==
    IF ~config_check(wrapper) THEN <<>>
    ELSE SortedList(
             {i2c_write_addr_byte(a) :
                 a \in {d \in DOMAIN devices : d \in start_addr..end_addr /\ "w" \in devices[d]}}
             \cup
             {i2c_read_addr_byte(a) :
                 a \in {d \in DOMAIN devices : d \in start_addr..end_addr /\ "r" \in devices[d]}})

\* a faulty variant: the reported bytes shifted but not made a set
ScanAddressesKeepDuplicates(found) == [i \in DOMAIN found |-> ShiftRight(found[i])]

\* i2c_scan, lines 342-343: list(set(addr >> 1 for addr in found)), sorted
scan_addresses(found) == SortedList({ShiftRight(found[i]) : i \in DOMAIN found})

NoScan ==
    [start_addr |-> 0, end_addr |-> 0, devices |-> <<>>, asked |-> FALSE,
     found |-> <<>>, addresses |-> <<>>]

\* i2c_scan
i2c_scan(b, start_addr, end_addr, devices) ==
    IF NoWrapper(b, b._i2c)
    THEN [start_addr |-> start_addr, end_addr |-> end_addr, devices |-> devices,
          asked |-> FALSE, found |-> <<>>, addresses |-> <<>>]
    ELSE LET found == wrapper_scan(TheValue(b._i2c), start_addr, end_addr, devices)
         IN  [start_addr |-> start_addr, end_addr |-> end_addr, devices |-> devices,
              asked |-> config_check(TheValue(b._i2c)),
              found |-> found, addresses |-> scan_addresses(found)]

\* the ranges scanned: the default 0x08..0x77 and a narrower one
ScanRanges == {[start_addr |-> 8, end_addr |-> 119], [start_addr |-> 9, end_addr |-> 80]}
\* the devices on the bus: any of three addresses, each acknowledging the
\* write form, the read form or both
ScanForms == {{"w"}, {"r"}, {"w", "r"}}
ScanDevices == UNION {[D -> ScanForms] : D \in SUBSET {8, 80, 119}}

\* the with-statement: not entered yet
NoBlock ==
    [state |-> "outside", connect_called |-> FALSE, connect_returned |-> NoValue,
     disconnect_called |-> FALSE]
\* a call made right after entry is the first statement of the block's body
AfterCall(blk) == IF blk.state = "entered" THEN [blk EXCEPT !.state = "body"] ELSE blk

\* One call of a backend method: the fields and the observation after it; w is
\* what an I2C operation passed to its wrapper
DoIn(name, o, w, blk) ==
    /\ wire' = w
    /\ scan' = NoScan
    /\ block' = blk
    /\ op' = name
    /\ _client' = o.b._client
    /\ _connected' = o.b._connected
    /\ _spi' = o.b._spi
    /\ _i2c' = o.b._i2c
    /\ _current_mode' = o.b._current_mode
    /\ ret' = o.ret
    /\ raised' = o.raised
    /\ calls' = o.calls
    /\ answer' = o.answer
    /\ UNCHANGED <<port, protoVars, monVars, otherVars>>

\* a method call made by the program: inside a with-block it is part of the body
DoSent(name, o, w) == DoIn(name, o, w, AfterCall(block))

Do(name, o) == DoSent(name, o, NoWire)

\* Backend.__enter__: connect() is called, its result dropped, self returned
Enter ==
    /\ block.state \in {"outside", "exited"}
    /\ \E e \in ConnectAnswers :
          DoIn("connect", connect(Self, e), NoWire,
               [state |-> "entered", connect_called |-> TRUE,
                connect_returned |-> connect(Self, e).ret, disconnect_called |-> FALSE])

\* Backend.__exit__, run however the block ends: disconnect() is called
Exit ==
    /\ block.state \in {"entered", "body"}
    /\ \E c \in CloseAnswers :
          DoIn("disconnect", disconnect(Self, c), NoWire,
               [block EXCEPT !.state = "exited", !.disconnect_called = TRUE])

Connect == \E e \in ConnectAnswers : Do("connect", connect(Self, e))
Disconnect == \E c \in CloseAnswers : Do("disconnect", disconnect(Self, c))
ConfigureSpi ==
    \E a \in ConfigAnswers : Do("configure_spi", configure_wrapper(Self, "_spi", "SPI", a))
ConfigureI2c ==
    \E a \in ConfigAnswers : Do("configure_i2c", configure_wrapper(Self, "_i2c", "I2C", a))
ConfigureUart == \E a \in ConfigAnswers : Do("configure_uart", configure_uart(Self, a))
SetPsu == \E a \in ConfigAnswers : Do("set_psu", set_option(Self, a))
SetPullups == \E a \in ConfigAnswers : Do("set_pullups", set_option(Self, a))
SpiTransfer == \E a \in DataAnswers : Do("spi_transfer", transfer_bytes(Self, _spi, a))
\* the I2C data operations, on an address of A, the client answering from D
I2cWriteTo(A, D) ==
    \E address \in A, a \in D :
        DoSent("i2c_write", i2c_write(Self, a),
               Passed(Self, address, i2c_write_addr_byte(address)))
I2cReadFrom(A, D) ==
    \E address \in A, a \in D :
        DoSent("i2c_read", transfer_bytes(Self, _i2c, a),
               Passed(Self, address, i2c_read_addr_byte(address)))
I2cWriteReadAt(A, D) ==
    \E address \in A, a \in D :
        DoSent("i2c_write_read", transfer_bytes(Self, _i2c, a),
               Passed(Self, address, i2c_write_addr_byte(address)))

I2cWrite == I2cWriteTo(BackendAddresses, DataAnswers)
I2cRead == I2cReadFrom(BackendAddresses, DataAnswers)
I2cWriteRead == I2cWriteReadAt(BackendAddresses, DataAnswers)

\* i2c_scan: what it returns is in scan.addresses
I2cScan ==
    \E r \in ScanRanges, devices \in ScanDevices :
        /\ scan' = i2c_scan(Self, r.start_addr, r.end_addr, devices)
        /\ wire' = NoWire
        /\ block' = AfterCall(block)
        /\ op' = "i2c_scan"
        /\ ret' = "list"
        /\ raised' = FALSE
        /\ calls' = IF i2c_scan(Self, r.start_addr, r.end_addr, devices).asked
                    THEN [a \in 1..(r.end_addr - r.start_addr + 1) |-> "data_request"]
                    ELSE <<>>
        /\ answer' = NoValue
        /\ UNCHANGED <<port, backendVars, protoVars, monVars, otherVars>>
UartRead == \E a \in DataAnswers : Do("uart_read", uart_read(Self, a))
UartWrite == \E a \in DataAnswers : Do("uart_write", uart_write(Self, a))

\* ------------------------------------------------------------------------
\* Specifications
\* ------------------------------------------------------------------------

InitProtocol ==
    /\ _sequence = 0
    /\ request = None
    /\ parsed = None
    /\ call = [method |-> "init", args |-> None]
    /\ nCalls = 0
    /\ probeAt = 0
    /\ probePrev = 0

InitBackend ==
    /\ _client = None
    /\ _connected = FALSE
    /\ _spi = None
    /\ _i2c = None
    /\ _current_mode = None
    /\ op = "init"
    /\ ret = "-"
    /\ raised = FALSE
    /\ calls = <<>>
    /\ answer = "-"

\* no framing call made yet
InitFrame ==
    /\ payload = <<>>
    /\ frame = <<>>
    /\ decoded = [state |-> "none", value |-> <<>>]

\* no I2C operation made yet
InitI2c ==
    /\ wire = NoWire
    /\ scan = NoScan
    /\ block = NoBlock

\* no sweep started
InitSweep == sweep = NoSweep

\* no configuration loaded, nothing received
InitConditions ==
    /\ conditions = <<>>
    /\ serial_buffer = <<>>
    /\ matched = NotChecked

\* the monitor task has not run, nothing was dropped
InitWatch == monitor = NotRun /\ stream = NoStream

\* the triggers as the configuration files list them
InitialTriggers ==
    [i \in 1..MaxTriggers |->
        [symbol |-> "-", enabled |-> FALSE, shown |-> "-", switch |-> FALSE]]
InitTrig == triggers = InitialTriggers /\ toggled = NoToggle

InitUart == uart = NoUart

InitBrute == brute = InitialBrute

\* HwhApp.__init__ and compose: the parameters 0, the fields showing "0"
NoPresses == [count |-> 0, latest |-> NoPress, before |-> InitialParams]
InitParams ==
    /\ glitch = InitialParams
    /\ inputs = [length |-> <<"0">>, repeat |-> <<"0">>, delay |-> <<"0">>]
    /\ presses = NoPresses

\* HwhApp.__init__: no connection, no device selected
InitDevices == connections = NoConnections /\ selected_device = None /\ tui = NoEvent

InitTools == InitWatch /\ InitTrig /\ InitUart /\ InitBrute /\ InitParams /\ InitDevices

InitOther == InitFrame /\ InitI2c /\ InitSweep /\ InitConditions /\ InitTools

\* the numbers watched for repeats: the first one issued and a later one
Probes == {0, 3}

\* One protocol object, its builders called with their default arguments in any
\* order, past the counter's wraparound.
InitSeq == InitProtocol /\ InitBackend /\ InitOther /\ port = TRUE /\ probe \in Probes
NextSeq ==
    /\ nCalls < MaxCalls
    /\ \/ build_status_request(DefaultStatusArgs)
       \/ build_configuration_request(DefaultConfigArgs)
       \/ build_data_request(DefaultDataArgs)
SpecSeq == InitSeq /\ [][NextSeq]_vars

\* One protocol object, its builders called with any arguments.
InitBuild == InitProtocol /\ InitBackend /\ InitOther /\ port = TRUE /\ probe = 0
NextBuild ==
    /\ nCalls < MaxBuilds
    /\ \/ \E a \in StatusArgs : build_status_request(a)
       \/ \E a \in ConfigArgs : build_configuration_request(a)
       \/ \E a \in DataArgs : build_data_request(a)
SpecBuild == InitBuild /\ [][NextBuild]_vars

\* One protocol object, parse_response called on any received bytes between
\* builder calls.
InitParse == InitProtocol /\ InitBackend /\ InitOther /\ port = TRUE /\ probe = 0
NextParse ==
    \/ /\ nCalls < MaxBuilds
       /\ \/ build_status_request(DefaultStatusArgs)
          \/ build_configuration_request(DefaultConfigArgs)
          \/ build_data_request(DefaultDataArgs)
    \/ \E data \in ResponseInputs : ParseResponse(data)
SpecParse == InitParse /\ [][NextParse]_vars

\* The framing functions applied to a payload: encode_message, then
\* decode_message on what a receiver cuts off before the terminator.
InitFraming ==
    /\ InitProtocol /\ InitBackend /\ port = TRUE /\ probe = 0
    /\ payload \in Payloads
    /\ frame = <<>>
    /\ decoded = [state |-> "none", value |-> <<>>]
    /\ InitI2c
    /\ InitSweep
    /\ InitConditions
    /\ InitTools
NextFraming == EncodeMessage \/ DecodeMessage
SpecFraming == InitFraming /\ [][NextFraming]_vars

\* One backend object used for I2C: connected, configured, then data
\* operations on any 7-bit address.
\* the client's answer is not at issue here: the request is answered with data
AddressedAnswers == {SomeBytes}
InitAddressing == InitProtocol /\ InitBackend /\ InitOther /\ port = TRUE /\ probe = 0
NextAddressing ==
    \/ Connect
    \/ ConfigureI2c
    \/ I2cWriteTo(SevenBitAddresses, AddressedAnswers)
    \/ I2cReadFrom(SevenBitAddresses, AddressedAnswers)
    \/ I2cWriteReadAt(SevenBitAddresses, AddressedAnswers)
SpecAddressing == InitAddressing /\ [][NextAddressing]_vars

\* One backend object used for I2C: connected, configured, then scans of the bus.
InitScanning == InitProtocol /\ InitBackend /\ InitOther /\ port = TRUE /\ probe = 0
NextScanning ==
    \/ Connect
    \/ Disconnect
    \/ ConfigureI2c
    \/ I2cScan
SpecScanning == InitScanning /\ [][NextScanning]_vars

\* One backend object used as a context manager, as the CLI's spi commands
\* do: entry, SPI operations in the block, exit.
InitWith == InitProtocol /\ InitBackend /\ InitOther /\ port \in BOOLEAN /\ probe = 0
NextWith ==
    \/ Enter
    \/ block.state \in {"entered", "body"} /\ ConfigureSpi
    \/ block.state \in {"entered", "body"} /\ SpiTransfer
    \/ block.state \in {"entered", "body"} /\ Disconnect
    \/ Exit
SpecWith == InitWith /\ [][NextWith]_vars

\* The glitch sweep command run once with any ranges, steps and attempts.
InitSweeping == InitProtocol /\ InitBackend /\ InitOther /\ port = TRUE /\ probe = 0
NextSweeping == GlitchSweepCommand \/ SweepWidth \/ SweepOffset \/ SweepAttempt
SpecSweeping == InitSweeping /\ [][NextSweeping]_vars

\* The serial monitor with any configuration loaded: text arrives, switches
\* are toggled, the buffer is checked.
InitMonitor ==
    /\ InitProtocol /\ InitBackend /\ port = TRUE /\ probe = 0
    /\ InitFrame /\ InitI2c /\ InitSweep
    /\ conditions \in Configurations
    /\ serial_buffer = <<>>
    /\ matched = NotChecked
    /\ InitTools
NextMonitor == ToggleCondition \/ ReceiveText \/ CheckConditions
SpecMonitor == InitMonitor /\ [][NextMonitor]_vars

\* One backend object, its methods called in any order, the client answering
\* in any way.
InitBackendSpec == InitProtocol /\ InitBackend /\ InitOther /\ port \in BOOLEAN /\ probe = 0
NextBackend ==
    \/ Connect
    \/ Disconnect
    \/ ConfigureSpi
    \/ ConfigureI2c
    \/ ConfigureUart
    \/ SetPsu
    \/ SetPullups
    \/ SpiTransfer
    \/ I2cWrite
    \/ I2cRead
    \/ I2cWriteRead
    \/ UartRead
    \/ UartWrite
SpecBackend == InitBackendSpec /\ [][NextBackend]_vars

\* The monitor task with a configuration loaded whose trigger strings are one
\* character long: text arrives, switches are toggled, the task runs.
WatchedConfigurations ==
    {c \in Configurations : \A i \in DOMAIN c : c[i].trigger = <<"a">>}
InitWatching ==
    /\ InitProtocol /\ InitBackend /\ port = TRUE /\ probe = 0
    /\ InitFrame /\ InitI2c /\ InitSweep
    /\ conditions \in WatchedConfigurations
    /\ serial_buffer = <<>>
    /\ matched = NotChecked
    /\ InitTools
NextWatching == ToggleCondition \/ ReadSerialLoop \/ MonitorBuffer
SpecWatching == InitWatching /\ [][NextWatching]_vars

\* The triggers of any configuration: symbols toggled and set, switches flipped.
TriggerLists ==
    [1..MaxTriggers ->
        {[symbol |-> symbol, enabled |-> enabled, shown |-> symbol, switch |-> enabled] :
            symbol \in {"^", "v", "-"}, enabled \in BOOLEAN}]
InitTriggers ==
    /\ InitProtocol /\ InitBackend /\ port = TRUE /\ probe = 0
    /\ InitFrame /\ InitI2c /\ InitSweep /\ InitConditions
    /\ InitWatch /\ InitUart /\ InitBrute /\ InitParams /\ InitDevices
    /\ triggers \in TriggerLists
    /\ toggled = NoToggle
NextTriggers == ToggleTrigger \/ SetTriggerString \/ TriggerSwitchChanged
SpecTriggers == InitTriggers /\ [][NextTriggers]_vars

\* send_uart_message with any configured newline, on any message.
InitUartSending ==
    /\ InitProtocol /\ InitBackend /\ port = TRUE /\ probe = 0
    /\ InitFrame /\ InitI2c /\ InitSweep /\ InitConditions
    /\ InitWatch /\ InitTrig /\ InitBrute /\ InitParams /\ InitDevices
    /\ uart \in {[NoUart EXCEPT !.newline = newline] : newline \in Newlines}
NextUartSending == UartSwitch \/ SendUartMessage \/ SendUartMessageAgain
SpecUartSending == InitUartSending /\ [][NextUartSending]_vars

\* The brute-force configuration's two functions called in any order.
InitBruteForce == InitProtocol /\ InitBackend /\ InitOther /\ port = TRUE /\ probe = 0
NextBruteForce == PerformGlitch \/ GlitchedTooFar
SpecBruteForce == InitBruteForce /\ [][NextBruteForce]_vars

\* The adjust buttons of the interface pressed in any order.
InitAdjusting == InitProtocol /\ InitBackend /\ InitOther /\ port = TRUE /\ probe = 0
NextAdjusting == HandleParamAdjust
SpecAdjusting == InitAdjusting /\ [][NextAdjusting]_vars

\* Devices connected and disconnected in the interface in any order.
InitDeviceList == InitProtocol /\ InitBackend /\ InitOther /\ port = TRUE /\ probe = 0
NextDeviceList == ConnectDevice \/ DisconnectDevice
SpecDeviceList == InitDeviceList /\ [][NextDeviceList]_vars

\* ------------------------------------------------------------------------
\* Properties
\* ------------------------------------------------------------------------

Range(f) == {f[i] : i \in DOMAIN f}

\* C1: the three builders share one counter: the k-th builder call, whichever
\* builder it is, embeds (k-1) mod 65536 and leaves the counter at k mod 65536
\* (one number consumed per call); every number is in 0..65535; and a number is
\* issued again only 65536 calls or more after it was issued before.
C1_SharedSequenceCounter ==
    /\ _sequence \in 0..(SeqModulus - 1)
    /\ _sequence = nCalls % SeqModulus
    /\ nCalls > 0 =>
          /\ request # None
          /\ TheValue(request).sequence = (nCalls - 1) % SeqModulus
          /\ TheValue(request).sequence \in 0..(SeqModulus - 1)
    /\ probePrev > 0 => probeAt - probePrev >= SeqModulus

\* the counter has wrapped: number 3 was issued a second time, by call 65540
C1_Wrapped ==
    /\ nCalls = SeqModulus + 4
    /\ probe = 3
    /\ probePrev = 4
    /\ probeAt = SeqModulus + 4
    /\ TheValue(request).packet_type = "DataRequest"
    /\ TheValue(request).sequence = 3

\* C2: a transfer of one bus protocol, requested while the cached mode is the
\* other's, returns the failure value without any request to the client.
C2_MismatchedModeRejectedLocally ==
    /\ (op = "spi_transfer" /\ _current_mode = Some("I2C")) =>
          (ret = EmptyBytes /\ calls = <<>>)
    /\ (op = "i2c_read" /\ _current_mode = Some("SPI")) =>
          (ret = EmptyBytes /\ calls = <<>>)
    /\ (op \in {"i2c_write", "i2c_write_read"} /\ _current_mode = Some("SPI")) =>
          calls = <<>>

\* C3: a connect() that obtained no status response returns False and leaves the
\* backend not connected and without a client.
C3_FailedProbeLeavesDisconnected ==
    (op = "connect" /\ answer # "status") =>
        (ret = PyFalse /\ ~_connected /\ _client = None)

ConfigureOps == {"configure_spi", "configure_i2c", "configure_uart", "set_psu", "set_pullups"}

\* C4: called while the backend is not connected, a configure-type operation
\* returns False, calls nothing on the client and leaves the cached mode as it was.
C4_NotConnectedConfigureFails ==
    [][(~_connected /\ op' \in ConfigureOps) =>
          /\ ret' = PyFalse
          /\ ~raised'
          /\ calls' = <<>>
          /\ _current_mode' = _current_mode]_vars

\* a configure on a backend that is not connected although it holds a client
\* and a cached mode
C4_RefusedWhileHoldingClient ==
    /\ op = "configure_uart"
    /\ ~_connected
    /\ _client # None
    /\ _current_mode # None
    /\ ret = PyFalse
    /\ calls = <<>>

\* C5: disconnect() always ends not connected and without a client, raises
\* nothing even when close() does, and a disconnect() right after a
\* disconnect() changes no field and calls nothing.
C5_DisconnectIdempotent ==
    [][op' = "disconnect" =>
          /\ ~_connected'
          /\ _client' = None
          /\ ~raised'
          /\ op = "disconnect" => (backendVars' = backendVars /\ calls' = <<>>)]_vars

\* a disconnect() whose close() raised
C5_CloseErrorSwallowed ==
    /\ op = "disconnect"
    /\ calls = <<"close">>
    /\ answer = "raise"
    /\ ~raised
    /\ _client = None
    /\ ~_connected

ModeOf == [configure_spi |-> "SPI", configure_i2c |-> "I2C", configure_uart |-> "UART"]

\* a configure sets the cached mode when the request reports success, and
\* returns False with the cached mode as it was when the response carries an error
C6_ConfigureEffect ==
    op' \in DOMAIN ModeOf =>
        /\ answer' = PyTrue => (ret' = PyTrue /\ _current_mode' = Some(ModeOf[op']))
        /\ answer' = PyFalse => (ret' = PyFalse /\ _current_mode' = _current_mode)
        /\ ret' # PyTrue => _current_mode' = _current_mode

\* C6 as stated: the cached mode changes only by a successful configure, which
\* sets it exactly on success.
C6_ModeChangesOnlyByConfigure ==
    [][/\ C6_ConfigureEffect
       /\ _current_mode' # _current_mode => (op' \in DOMAIN ModeOf /\ ret' = PyTrue)]_vars

\* C6 amended: the cached mode changes only by a successful configure or by a
\* successful connect (which caches the mode the status response reports); a
\* configure sets it exactly on success.
C6_ModeChangesByConfigureOrConnect ==
    [][/\ C6_ConfigureEffect
       /\ _current_mode' # _current_mode =>
             \/ op' \in DOMAIN ModeOf /\ ret' = PyTrue
             \/ op' = "connect" /\ ret' = PyTrue]_vars

\* an error response to configure_uart left the mode SPI cached
C6_ErrorKeepsMode ==
    /\ op = "configure_uart"
    /\ answer = PyFalse
    /\ ret = PyFalse
    /\ _current_mode = Some("SPI")

\* C7: a data operation whose request got no response returns its failure
\* value: empty bytes, and False for i2c_write.
C7_TimeoutIsFailure ==
    (answer = PyNone /\ calls = <<"data_request">>) =>
        /\ op \in {"spi_transfer", "i2c_read", "i2c_write_read", "uart_read"} =>
              ret = EmptyBytes
        /\ op = "i2c_write" => ret = PyFalse

\* C8: parse_response returns None for a packet whose type is none of the
\* three response types.
C8_UnknownTypeYieldsNone ==
    (call.method = "parse_response" /\ call.args.packet_type \notin KnownResponseTypes) =>
        TheValue(parsed) = Return(None)

\* C9: parse_response never raises; it returns None or a dictionary with the
\* packet's sequence and type, None whenever decoding fails (the root does not
\* decode, or the table of a known type does not); and the counter is moved by
\* builder calls only.
C9_ParseNeverRaises ==
    /\ _sequence = nCalls % SeqModulus
    /\ call.method = "parse_response" =>
          LET data == call.args
              out == TheValue(parsed)
          IN  /\ ~out.raised
              /\ \/ out.value = None
                 \/ /\ TheValue(out.value).sequence = data.sequence
                    /\ TheValue(out.value).type = data.packet_type
              /\ (~data.root_ok \/ (data.packet_type \in KnownResponseTypes /\ ~data.packet_ok))
                    => out.value = None

\* undecodable bytes parsed after a builder call
C9_MalformedParsed ==
    /\ call.method = "parse_response"
    /\ ~call.args.root_ok
    /\ TheValue(parsed) = Return(None)
    /\ _sequence = 2

\* the message build_configuration_request returns for arguments a and number seq
ConfigurationMessage(a, seq) ==
    RequestPacket(seq, "ConfigurationRequest",
        ConfigurationRequestPacket(a.mode, a.mode_config, a.psu_enable,
            a.psu_voltage_mv, a.psu_current_ma, a.pullup_enable))

\* C10: with the other arguments and the sequence number equal, psu_enable
\* omitted and psu_enable=False give different messages: omitted carries
\* neither psu_enable nor psu_disable, False carries psu_disable.
C10_PsuOmittedVsFalse ==
    (call.method = "build_configuration_request"
        /\ call.args.psu_enable \in {None, Some(FALSE)}) =>
        LET a == call.args
            msg == TheValue(request)
            omitted == ConfigurationMessage([a EXCEPT !.psu_enable = None], msg.sequence)
            false == ConfigurationMessage([a EXCEPT !.psu_enable = Some(FALSE)], msg.sequence)
        IN  /\ msg \in {omitted, false}
            /\ omitted # false
            /\ a.psu_enable = None =>
                  (msg.packet.psu_enable = None /\ msg.packet.psu_disable = None)
            /\ a.psu_enable = Some(FALSE) =>
                  (msg.packet.psu_enable = None /\ msg.packet.psu_disable = Some(TRUE))

\* psu_enable=False given with a mode and a voltage
C10_ExplicitFalseBuilt ==
    /\ call.method = "build_configuration_request"
    /\ call.args.psu_enable = Some(FALSE)
    /\ call.args.mode = Some("SPI")
    /\ call.args.psu_voltage_mv = Some(0)
    /\ TheValue(request).packet.psu_disable = Some(TRUE)
    /\ TheValue(request).sequence = 1

\* the fields of the ModeConfiguration record a caller may supply
ModeConfigurationFields == EncodedConfigKeys \cup {"parity", "stop_bits"}

\* field k of a built table: {} when the table does not carry it
TableField(table, k) == IF k \in DOMAIN table THEN table[k] ELSE None

\* C11: build_configuration_request encodes only supplied fields: a field the
\* caller did not supply (mode, mode_configuration, each sub-field of
\* mode_configuration, the PSU flags, psu_set_mv, psu_set_ma, the pull-up flags)
\* is absent from the message.
C11_OnlySuppliedFieldsEncoded ==
    call.method = "build_configuration_request" =>
        LET a == call.args
            p == TheValue(request).packet
        IN  /\ a.mode = None => p.mode = None
            /\ a.mode_config = None => p.mode_configuration = None
            /\ (a.mode_config # None /\ p.mode_configuration # None) =>
                  \A k \in ModeConfigurationFields :
                      k \notin DOMAIN TheValue(a.mode_config) =>
                          TableField(TheValue(p.mode_configuration), k) = None
            /\ a.psu_enable = None => (p.psu_enable = None /\ p.psu_disable = None)
            /\ a.psu_voltage_mv = None => p.psu_set_mv = None
            /\ a.psu_current_ma = None => p.psu_set_ma = None
            /\ a.pullup_enable = None => (p.pullup_enable = None /\ p.pullup_disable = None)

\* a request with a mode and a speed only: nothing else is in the message
C11_ModeAndSpeedOnly ==
    /\ call.method = "build_configuration_request"
    /\ call.args.mode = Some("SPI")
    /\ call.args.mode_config # None
    /\ DOMAIN TheValue(call.args.mode_config) = {"speed"}
    /\ call.args.psu_enable = None
    /\ call.args.psu_voltage_mv = None
    /\ call.args.psu_current_ma = None
    /\ call.args.pullup_enable = None
    /\ TheValue(request).packet.mode = Some("SPI")
    /\ TheValue(TheValue(request).packet.mode_configuration).speed # None
    /\ TheValue(TheValue(request).packet.mode_configuration).data_bits = None
    /\ TheValue(request).packet.pullup_disable = None
    /\ TheValue(request).packet.psu_set_mv = None

\* C12: every field the caller supplies is in the message, with the value
\* supplied: the mode, each supplied field of mode_configuration (parity and
\* stop bits among them), the PSU flag, psu_set_mv, psu_set_ma, the pull-up flag.
C12_SuppliedFieldsEncoded ==
    call.method = "build_configuration_request" =>
        LET a == call.args
            p == TheValue(request).packet
        IN  /\ a.psu_enable # None => (p.psu_enable # None \/ p.psu_disable # None)
            /\ a.psu_voltage_mv # None => p.psu_set_mv = a.psu_voltage_mv
            /\ a.psu_current_ma # None => p.psu_set_ma = a.psu_current_ma
            /\ a.pullup_enable # None => (p.pullup_enable # None \/ p.pullup_disable # None)
            /\ TruthyStr(a.mode) => p.mode = a.mode
            /\ a.mode_config # None =>
                  \A k \in DOMAIN TheValue(a.mode_config) :
                      /\ p.mode_configuration # None
                      /\ TableField(TheValue(p.mode_configuration), k)
                            = Some(TheValue(a.mode_config)[k])

\* C13: COBS framing round-trips: decode_message on encode_message(b) without
\* its one trailing terminator byte returns exactly b.
C13_FramingRoundTrip ==
    decoded.state # "none" => decoded = Decoded(payload)

\* a payload with a zero before and after a full block has made the round trip
C13_LongPayloadRoundTripped ==
    /\ decoded.state = "ok"
    /\ Len(payload) = CobsMaxBlock + 2
    /\ payload[1] = 0
    /\ payload[Len(payload)] = 0
    /\ decoded.value = payload

\* C14: the frame encode_message returns holds exactly one zero byte, its last
\* byte: the first zero a receiver finds is the frame's end.
C14_OnlyZeroIsTerminator ==
    Len(frame) > 0 =>
        /\ frame[Len(frame)] = 0
        /\ \A i \in 1..(Len(frame) - 1) : frame[i] # 0
        /\ \A i \in 1..Len(frame) : frame[i] \in 0..255

\* the frame of a payload that holds zero bytes
C14_ZerosFramed ==
    /\ Len(frame) > 0
    /\ Len(payload) = 2
    /\ payload[1] = 0
    /\ payload[2] = 0
    /\ frame = <<1, 1, 1, 0>>

C16_AddressByteEncoding ==
    (wire.passed /\ wire.address \in SevenBitAddresses) =>
        /\ op \in {"i2c_write", "i2c_write_read"} => wire.addr_byte = 2 * wire.address
        /\ op = "i2c_read" => wire.addr_byte = 2 * wire.address + 1
        /\ wire.addr_byte \in 0..255
        /\ wire.addr_byte \div 2 = wire.address

\* the highest address read: the byte 0xFF went out in a data request
C16_HighestAddressRead ==
    /\ op = "i2c_read"
    /\ wire.passed
    /\ wire.address = 127
    /\ wire.addr_byte = 255
    /\ calls = <<"data_request">>

\* C17: after a status request with the default query, the response
\* StatusResponse{mode_current = "HiZ", psu.enabled = false} parses to a
\* dictionary whose mode is "HiZ" and whose psu.enabled is False, and the mode
\* connect() reads from that dictionary is "HiZ".
C17_StatusDictionaryCarriesMode ==
    (/\ call.method = "parse_response"
     /\ request # None
     /\ TheValue(request).packet_type = "StatusRequest"
     /\ TheValue(request).packet.query = <<"All">>
     /\ call.args.root_ok
     /\ call.args.packet_ok
     /\ call.args.packet_type = "StatusResponse"
     /\ call.args.packet.mode_current = Some("HiZ")
     /\ ~call.args.packet.psu_enabled) =>
        LET status == TheValue(TheValue(TheValue(parsed).value).data)
        IN  /\ status.mode = Some("HiZ")
            /\ status.psu.enabled = FALSE
            /\ connect_mode(status) = Some("HiZ")

C19_SweepCount ==
    (/\ sweep.pc = "done"
     /\ sweep.args.width_min <= sweep.args.width_max
     /\ sweep.args.offset_min <= sweep.args.offset_max) =>
        LET a == sweep.args
        IN  /\ Len(sweep.results) =
                  ((a.width_max - a.width_min) \div a.width_step + 1)
                      * ((a.offset_max - a.offset_min) \div a.offset_step + 1) * a.attempts
            /\ sweep.triggers = Len(sweep.results)
            /\ sweep.total = Len(sweep.results)

\* a finished sweep whose steps do not divide its ranges: 2 widths, 2 offsets,
\* 2 attempts each
C19_UnevenSweepDone ==
    /\ sweep.pc = "done"
    /\ sweep.args.width_min = 0 /\ sweep.args.width_max = 3 /\ sweep.args.width_step = 2
    /\ sweep.args.offset_min = 1 /\ sweep.args.offset_max = 3 /\ sweep.args.offset_step = 2
    /\ sweep.args.attempts = 2
    /\ Len(sweep.results) = 8
    /\ sweep.triggers = 8
    /\ sweep.total = 8

\* the trigger string occurs somewhere in the buffer
Occurs(trigger, buffer) ==
    \E pos \in 1..(Len(buffer) - Len(trigger) + 1) :
        \A k \in 1..Len(trigger) : buffer[pos + k - 1] = trigger[k]

\* the conditions that can produce an action on the buffer
Firing(conds, buffer) ==
    {i \in DOMAIN conds :
        conds[i].enabled /\ Len(conds[i].trigger) > 0 /\ Occurs(conds[i].trigger, buffer)}

\* C20: check_conditions returns the action of the lowest-index condition that
\* is enabled and whose non-empty trigger string occurs in the buffer, and None
\* when there is none; a disabled condition and a condition with an empty
\* trigger string never produce an action.
C20_LowestEnabledMatchWins ==
    matched.checked =>
        LET firing == Firing(conditions, matched.buffer)
        IN  /\ firing = {} => matched.action = None
            /\ firing # {} =>
                  \E i \in firing :
                      /\ \A j \in firing : i <= j
                      /\ matched.action = Some(conditions[i].action)
            /\ \A i \in DOMAIN conditions :
                  (~conditions[i].enabled \/ Len(conditions[i].trigger) = 0) =>
                      (matched.action = Some(conditions[i].action) => i \in firing)

\* the first condition matches but is switched off, the second is on and
\* matches later in the buffer
C20_DisabledMatchPassedOver ==
    /\ matched.checked
    /\ Len(conditions) = 2
    /\ ~conditions[1].enabled
    /\ conditions[1].trigger = <<"a">>
    /\ conditions[2].enabled
    /\ conditions[2].trigger = <<"a", "b">>
    /\ matched.buffer = <<"a", "a", "b">>
    /\ matched.action = Some("start_chal_02")

C22_TruncationKeepsLastMaxKeep ==
    (monitor.ran /\ Len(monitor.found) > monitor.max_keep) =>
        /\ EndsWith(monitor.found, monitor.kept)
        /\ Len(monitor.kept) <= monitor.max_keep

\* the symbol that follows a symbol in the order "^", "v", "-", "^"
Successor(symbol) == IF symbol = "^" THEN "v" ELSE IF symbol = "v" THEN "-" ELSE "^"

\* C23: after one, two and three toggles in a row of the same trigger its
\* symbol is the first, the second successor of the symbol it started from and
\* that symbol again; each toggle leaves the trigger switched off and every
\* other trigger as it was.
C23_ToggleCyclesSymbol ==
    toggled.count > 0 =>
        LET i == toggled.index + 1
        IN  /\ Len(triggers) = Len(toggled.before)
            /\ triggers[i].symbol = Successor(toggled.before[i].symbol)
            /\ toggled.count = 1 => triggers[i].symbol = Successor(toggled.from)
            /\ toggled.count = 2 => triggers[i].symbol = Successor(Successor(toggled.from))
            /\ toggled.count = 3 => triggers[i].symbol = toggled.from
            /\ ~triggers[i].enabled
            /\ \A j \in DOMAIN triggers : j # i => triggers[j] = toggled.before[j]

\* a trigger toggled three times in a row while another trigger is switched on
C23_ThreeTogglesBesideEnabledTrigger ==
    /\ toggled.count = 3
    /\ \E j \in DOMAIN triggers :
          j # toggled.index + 1 /\ triggers[j].enabled /\ triggers[j].symbol = "v"

\* C24: with a newline configured, what send_uart_message writes ends in the
\* newline exactly once, whatever the message ends with; and sending the
\* message it sent once more writes the same bytes.
C24_ExactlyOneNewline ==
    /\ (uart.first.called /\ Len(uart.newline) > 0 /\ uart.first.raw # None) =>
          LET sent == TheValue(uart.first.raw)
              newline == encode_utf8(uart.newline)
          IN  /\ EndsWith(sent, newline)
              /\ ~EndsWith(SubSeq(sent, 1, Len(sent) - Len(newline)), newline)
    /\ (uart.second.called /\ Len(uart.newline) > 0
            /\ uart.first.raw # None /\ uart.second.raw # None) =>
          uart.second.raw = uart.first.raw

\* C25: the three glitch parameters are never negative, each equals the number
\* its input field shows, and a press on one parameter's button leaves the
\* other two parameters as they were.
C25_ParametersNeverNegative ==
    /\ \A p \in ParamNames : glitch[p] >= 0 /\ int(inputs[p]) = glitch[p]
    /\ presses.count > 0 =>
          \A p \in ParamNames \ {presses.latest.param_name} : glitch[p] = presses.before[p]

\* a decrement larger than the parameter's value, pressed while another
\* parameter is above zero
C25_DecrementBelowZeroPressed ==
    /\ presses.count > 0
    /\ presses.latest.direction = "neg"
    /\ presses.before[presses.latest.param_name] > 0
    /\ presses.before[presses.latest.param_name] < presses.latest.amount
    /\ glitch[presses.latest.param_name] = 0
    /\ \E p \in ParamNames \ {presses.latest.param_name} : glitch[p] > 0

\* the order in which perform_glitch visits the parameters
VisitOrder == <<"delay", "length", "delay", "repeat">>
AmountOf(b, parameter) ==
    IF parameter = "delay" THEN b.inc_delay_amount
    ELSE IF parameter = "length" THEN b.inc_length_amount
    ELSE b.inc_repeat_amount

\* C26: glitched_too_far decrements the parameter that the latest
\* perform_glitch incremented, by the amount of that increment, and narrows
\* that parameter's amount from 100 to 10 to 1; every amount is 100, 10 or 1
\* and never increases; perform_glitch visits delay, length, delay, repeat in
\* turn.
C26_TooFarUndoesLatestPerform ==
    /\ \A k \in 1..3 :
          /\ Amounts(brute)[k] \in {100, 10, 1}
          /\ Amounts(brute)[k] <= brute.amounts_before[k]
    /\ \A k \in DOMAIN brute.performed :
          brute.performed[k].parameter = VisitOrder[((k - 1) % 4) + 1]
    /\ (brute.latest.name = "glitched_too_far" /\ Len(brute.performed) > 0) =>
          LET undone == brute.performed[Len(brute.performed)]
          IN  /\ brute.latest.parameter = undone.parameter
              /\ brute.latest.amount = undone.amount
              /\ AmountOf(brute, undone.parameter)
                    = IF undone.amount = 100 THEN 10 ELSE 1

\* C27: the backend reports connected exactly when it holds a client.
C27_ConnectedIffClient == _connected <=> (_client # None)

\* C28: every entry of connections has a connected backend; connect_device
\* for an id that is already a key changes nothing; selected_device is None or
\* a key of connections.
C28_EntriesAreConnected ==
    /\ \A d \in Keys(connections) : TheValue(connections[d]).backend_connected
    /\ (tui.event = "connect_device" /\ tui.device_id \in Keys(tui.before.connections)) =>
          /\ connections = tui.before.connections
          /\ selected_device = tui.before.selected
    /\ selected_device = None \/ TheValue(selected_device) \in Keys(connections)


====
